---- MODULE Spec2Model ----
(***************************************************************************)
(* String Art Generation Engine (tomquist/StringArtGenerator).             *)
(*                                                                         *)
(* The model follows generateStringArt: the pin layout is computed, the    *)
(* line cache is precalculated, and then optimizeStringArt runs.  Two      *)
(* invocations of optimizeStringArt (Runs) are started on the same pixel   *)
(* buffer, parameters, pin coordinates and line cache, each with its own   *)
(* error matrix and its own choice of whether a progress callback is       *)
(* supplied.  JavaScript is single threaded: a run holds the thread        *)
(* (active) from the moment it is called or resumed until it awaits the    *)
(* setTimeout promise behind a progress emission, or returns.              *)
(*                                                                         *)
(* Numbers.  Pixel values, ink weights and error values are integers and   *)
(* are exact.  Math.round(p/q) is modelled on exact rationals.  Real       *)
(* valued quantities are fixed point: cosines and sines are scaled by      *)
(* TrigScale, thread lengths by LengthScale, percentages by PercentScale.  *)
(***************************************************************************)
EXTENDS Integers, Sequences, FiniteSets, TLC

\* ---------------------------------------------------------------- bounds
MaxLines == 25       \* largest numberOfLines explored
MaxImgSize == 8      \* processing resolution (params.imgSize) explored
LengthScale == 100   \* fixed-point digits of a thread length
PercentScale == 1000 \* fixed-point digits of percentComplete

\* ------------------------------------------------------ program constants
LastPinsCapacity == 20
ProgressInterval == 10

Runs == {1, 2}
NoRun == 0

\* --------------------------------------------------------------- helpers
Max(a, b) == IF a >= b THEN a ELSE b
Min(a, b) == IF a <= b THEN a ELSE b
Abs(a) == IF a < 0 THEN -a ELSE a

\* Math.round(num / den) for den > 0: the nearest integer, halves upwards
Round(num, den) == (2 * num + den) \div (2 * den)

\* Math.floor(Math.sqrt(n))
Isqrt(n) == CHOOSE k \in 0..n : k * k <= n /\ n < (k + 1) * (k + 1)

\* array.includes(v)
Includes(seq, v) == \E i \in 1..Len(seq) : seq[i] = v

\* ------------------------------------------------------------ parameters
Shapes == {"circle", "rectangle"}
\* cosine of k * 15 degrees for k = 0..6, scaled by TrigScale
QuarterCos == <<1000000, 965926, 866025, 707107, 500000, 258819, 0>>
TrigScale == QuarterCos[1]
AngleSteps == 4 * (Len(QuarterCos) - 1)

PinCounts == {4, 5, 8, 24}
CirclePinCounts == {n \in PinCounts : AngleSteps % n = 0}
\* rectangles are explored with the small counts, odd and even
RectPinCounts == {n \in PinCounts : n <= MaxImgSize}
MinDistances == {1, 2}
LineWeights == {200}
LineCounts == {1, MaxLines}
RectDims == {<<200, 100>>, <<100, 300>>}
ImagePatterns == {"white", "black", "ramp"}

\* cropToShape: pixel dimensions of the cropped buffer
TargetWidth(p) ==
    LET rect == p.shape = "rectangle" /\ p.height > 0
        w == IF rect THEN p.width ELSE 1
        h == IF rect THEN p.height ELSE 1
    IN  Max(1, IF w >= h THEN p.imgSize ELSE Round(p.imgSize * w, h))

TargetHeight(p) ==
    LET rect == p.shape = "rectangle" /\ p.height > 0
        w == IF rect THEN p.width ELSE 1
        h == IF rect THEN p.height ELSE 1
    IN  Max(1, IF w >= h THEN Round(p.imgSize * h, w) ELSE p.imgSize)

\* imageDataToFlatArray: one byte per pixel, row-major
PixelBuffer(pattern, len) ==
    [i \in 0..(len - 1) |->
        CASE pattern = "white" -> 255
          [] pattern = "black" -> 0
          [] OTHER -> (i * 29 + 7) % 256]

\* ------------------------------------------------------------ pin layout
\* Math.cos / Math.sin of k * (360 / AngleSteps) degrees, scaled by TrigScale
CosStep(k) ==
    LET q == Len(QuarterCos) - 1
        a == k % AngleSteps
    IN  IF a <= q THEN QuarterCos[a + 1]
        ELSE IF a <= 2 * q THEN -QuarterCos[2 * q - a + 1]
        ELSE IF a <= 3 * q THEN -QuarterCos[a - 2 * q + 1]
        ELSE QuarterCos[4 * q - a + 1]

SinStep(k) == CosStep(k + 3 * (Len(QuarterCos) - 1))

\* math/geometry calculatePinPositions, called with center = imgSize / 2 and
\* radius = imgSize / 2 - 0.5: pin i lies at angle 2*pi*i / numberOfPins and
\* its coordinates are floored.  center + radius * c is
\* (imgSize * TrigScale + (imgSize - 1) * c) / (2 * TrigScale).
calculatePinPositions(numberOfPins, imgSize) ==
    [i \in 1..numberOfPins |->
        LET k == ((i - 1) * AngleSteps) \div numberOfPins
        IN  << (imgSize * TrigScale + (imgSize - 1) * CosStep(k)) \div (2 * TrigScale),
               (imgSize * TrigScale + (imgSize - 1) * SinStep(k)) \div (2 * TrigScale) >>]

\* interval counts per side of the rectangle (pinsW, pinsH)
RectPinsPerSide(p) ==
    LET totalUnits == p.width + p.height
        baseW == (p.numberOfPins * p.width) \div (2 * totalUnits)
        baseH == (p.numberOfPins * p.height) \div (2 * totalUnits)
        fracW == (p.numberOfPins * p.width) % (2 * totalUnits)
        fracH == (p.numberOfPins * p.height) % (2 * totalUnits)
        remainder == Round(p.numberOfPins - 2 * (baseW + baseH), 2)
        toW == remainder > 0 /\ fracW >= fracH
        toH == remainder > 0 /\ ~(fracW >= fracH)
    IN  [pinsW |-> Max(1, IF toW THEN baseW + remainder ELSE baseW),
         pinsH |-> Max(1, IF toH THEN baseH + remainder ELSE baseH)]

\* variant: the vertical sides include their lower corner as well
calculateRectangularPinsWithCorner(p) ==
    LET pinsW == RectPinsPerSide(p).pinsW
        pinsH == RectPinsPerSide(p).pinsH
        maxX == TargetWidth(p) - 1
        maxY == TargetHeight(p) - 1
        top == [i \in 1..(pinsW + 1) |-> << Round((i - 1) * maxX, pinsW), 0 >>]
        right == [i \in 1..pinsH |-> << maxX, Round(i * maxY, pinsH) >>]
        bottom == [i \in 1..(pinsW + 1) |->
                      << Round((pinsW - (i - 1)) * maxX, pinsW), maxY >>]
        left == [i \in 1..pinsH |-> << 0, Round((pinsH - i) * maxY, pinsH) >>]
    IN  top \o right \o bottom \o left

\* variant: the coordinates span 0..pixelWidth and 0..pixelHeight
calculateRectangularPinsFullSpan(p) ==
    LET pinsW == RectPinsPerSide(p).pinsW
        pinsH == RectPinsPerSide(p).pinsH
        maxX == TargetWidth(p)
        maxY == TargetHeight(p)
        top == [i \in 1..(pinsW + 1) |-> << Round((i - 1) * maxX, pinsW), 0 >>]
        right == [i \in 1..(pinsH - 1) |-> << maxX, Round(i * maxY, pinsH) >>]
        bottom == [i \in 1..(pinsW + 1) |->
                      << Round((pinsW - (i - 1)) * maxX, pinsW), maxY >>]
        left == [i \in 1..(pinsH - 1) |-> << 0, Round((pinsH - i) * maxY, pinsH) >>]
    IN  top \o right \o bottom \o left

calculateRectangularPins(p) ==
    LET pinsW == RectPinsPerSide(p).pinsW
        pinsH == RectPinsPerSide(p).pinsH
        maxX == TargetWidth(p) - 1
        maxY == TargetHeight(p) - 1
        top == [i \in 1..(pinsW + 1) |-> << Round((i - 1) * maxX, pinsW), 0 >>]
        right == [i \in 1..(pinsH - 1) |-> << maxX, Round(i * maxY, pinsH) >>]
        bottom == [i \in 1..(pinsW + 1) |->
                      << Round((pinsW - (i - 1)) * maxX, pinsW), maxY >>]
        left == [i \in 1..(pinsH - 1) |-> << 0, Round((pinsH - i) * maxY, pinsH) >>]
    IN  top \o right \o bottom \o left

\* variant: the two arguments of calculatePinPositions exchanged
calculatePinsSwapped(p) ==
    IF p.shape = "rectangle"
    THEN calculateRectangularPins(p)
    ELSE calculatePinPositions(p.imgSize, p.numberOfPins)

calculatePins(p) ==
    IF p.shape = "rectangle"
    THEN calculateRectangularPins(p)
    ELSE calculatePinPositions(p.numberOfPins, p.imgSize)

\* ------------------------------------------------------------ line cache
Null == <<-1>>

DistanceSquared(c1, c2) ==
    (c1[1] - c2[1]) * (c1[1] - c2[1]) + (c1[2] - c2[2]) * (c1[2] - c2[2])

\* floor(scale * sqrt(d2)), given base = floor(sqrt(d2))
ScaledRoot(d2, base, scale) ==
    CHOOSE k \in (scale * base)..(scale * (base + 1)) :
        k * k <= d2 * scale * scale /\ d2 * scale * scale < (k + 1) * (k + 1)

\* math/geometry calculatePinDistance: the Euclidean distance sqrt(dx^2 + dy^2),
\* here floor(scale * distance); dx^2 + dy^2 is evaluated once (d2)
calculatePinDistance(c1, c2, scale) ==
    CHOOSE d \in {ScaledRoot(d2, Isqrt(d2), scale) : d2 \in {DistanceSquared(c1, c2)}} :
        TRUE

\* math/interpolation linspace(a, b, n): n samples from a to b, floored
linspace(a, b, n) ==
    IF n < 2 THEN (IF n = 1 THEN <<a>> ELSE <<>>)
    ELSE [i \in 1..n |-> ((i - 1) * b + (n - i) * a) \div (n - 1)]

\* the line between two pin coordinates: Math.floor of the distance is
\* evaluated once (count) and gives the number of samples of xs and ys
rasterize(c1, c2) ==
    CHOOSE line \in {[xs |-> linspace(c1[1], c2[1], count),
                      ys |-> linspace(c1[2], c2[2], count),
                      length |-> count] : count \in {calculatePinDistance(c1, c2, 1)}} :
        TRUE

\* variant: the inner loop starts one pin later, at b = a + minDistance + 1
CachedPairStrict(a, b, minDistance) == a + minDistance < b

\* the pair (a, b), 0-based with a < b, is rasterized when b >= a + minDistance
CachedPair(a, b, minDistance) == a + minDistance <= b

\* variant: each direction is rasterized from its own first pin
CacheCellDirected(coords, minDistance, i) ==
    LET numPins == Len(coords)
        a == i \div numPins
        b == i % numPins
    IN  IF CachedPair(Min(a, b), Max(a, b), minDistance)
        THEN rasterize(coords[a + 1], coords[b + 1])
        ELSE [xs |-> Null, ys |-> Null, length |-> 0]

\* the cache cell of flat index i: the line between pins min and max of
\* (i div numPins, i mod numPins) when the pair is far enough apart
CacheCell(coords, minDistance, i) ==
    LET numPins == Len(coords)
        lo == Min(i \div numPins, i % numPins)
        hi == Max(i \div numPins, i % numPins)
    IN  IF CachedPair(lo, hi, minDistance)
        THEN rasterize(coords[lo + 1], coords[hi + 1])
        ELSE [xs |-> Null, ys |-> Null, length |-> 0]

precalculateLineCache(coords, minDistance) ==
    LET numPins == Len(coords)
        cells == 0..(numPins * numPins - 1)
    IN  CHOOSE cache \in
            {[x |-> [i \in cells |-> cell[i].xs],
              y |-> [i \in cells |-> cell[i].ys],
              length |-> [i \in cells |-> cell[i].length],
              weight |-> [i \in cells |-> 1]] :
                cell \in {[[i \in cells |-> CacheCell(coords, minDistance, i)]
                              EXCEPT ![0] = @]}} : TRUE

\* ------------------------------------------------------------- optimizer
\* effective row stride of the error matrix (optimizeStringArt, findBestNextPin)
effectiveWidth(p) ==
    IF p.shape = "rectangle" /\ p.width # 0 /\ p.height # 0
    THEN (IF p.width >= p.height
          THEN p.imgSize
          ELSE Max(1, Round(p.imgSize * p.width, p.height)))
    ELSE p.imgSize

\* variant: the hoop diameter is the physical dimension for every shape
scaleFactorHoopOnly(p) == << p.hoopDiameter, p.imgSize >>

\* numerator and denominator of scaleFactor
scaleFactor(p) ==
    IF p.shape = "rectangle" /\ p.width # 0 /\ p.height # 0
    THEN << Max(p.width, p.height), p.imgSize >>
    ELSE << p.hoopDiameter, p.imgSize >>

createErrorMatrix(processedImageData) ==
    [i \in DOMAIN processedImageData |-> 255 - processedImageData[i]]

getPinAtOffset(pin, offset, numberOfPins) == (pin + offset) % numberOfPins

calculateMinPinDistance(pin1, pin2, numberOfPins) ==
    Min(Abs(pin2 - pin1), numberOfPins - Abs(pin2 - pin1))

\* variant: the offsets start at 1 whatever minDistance is
getValidTargetPinsFromOne(pin, minDistance, numberOfPins, excludePins) ==
    LET count == Max(0, numberOfPins - 2 * minDistance)
        targets == [k \in 1..count |-> getPinAtOffset(pin, k, numberOfPins)]
        Keep(t) == ~Includes(excludePins, t)
    IN  SelectSeq(targets, Keep)

\* variant: the excluded pins are not consulted
getValidTargetPinsNoExclusion(pin, minDistance, numberOfPins, excludePins) ==
    [k \in 1..Max(0, numberOfPins - 2 * minDistance) |->
        getPinAtOffset(pin, minDistance + k - 1, numberOfPins)]

getValidTargetPins(pin, minDistance, numberOfPins, excludePins) ==
    LET count == Max(0, numberOfPins - 2 * minDistance)
        targets == [k \in 1..count |->
                       getPinAtOffset(pin, minDistance + k - 1, numberOfPins)]
        Keep(t) == ~Includes(excludePins, t)
    IN  SelectSeq(targets, Keep)

RECURSIVE LineErrorFrom(_, _, _, _, _)
LineErrorFrom(em, xs, ys, imgWidth, i) ==
    IF i > Len(xs) THEN 0
    ELSE LET pixelIndex == ys[i] * imgWidth + xs[i]
         IN  (IF pixelIndex \in DOMAIN em THEN em[pixelIndex] ELSE 0)
             + LineErrorFrom(em, xs, ys, imgWidth, i + 1)

calculateLineError(em, xs, ys, imgWidth) == LineErrorFrom(em, xs, ys, imgWidth, 1)

\* variant: only the upper limit is enforced
ClampUpperOnly(v) == IF v > 255 THEN 255 ELSE v

Clamp(v) == IF v < 0 THEN 0 ELSE IF v > 255 THEN 255 ELSE v

RECURSIVE LineMaskFrom(_, _, _, _, _, _)
LineMaskFrom(em, xs, ys, lineWeight, imgWidth, i) ==
    IF i > Len(xs) THEN em
    ELSE LET pixelIndex == ys[i] * imgWidth + xs[i]
             written == IF pixelIndex \in DOMAIN em
                        THEN [em EXCEPT ![pixelIndex] = Clamp(@ - lineWeight)]
                        ELSE em
         IN  \* the matrix after this write (m) is what the next iteration reads
             CHOOSE result \in {LineMaskFrom(m, xs, ys, lineWeight, imgWidth, i + 1) :
                                   m \in {written}} : TRUE

applyLineMask(em, xs, ys, lineWeight, imgWidth) ==
    LineMaskFrom(em, xs, ys, lineWeight, imgWidth, 1)

\* index of the line-cache cell the optimizer reads for (testPin, pin)
cacheIndex(testPin, pin, p) == testPin * p.numberOfPins + pin

\* what one iteration of the loop over validPins reads for testPin: the
\* cached coordinates of the cell it addresses and the weighted line error
Candidate(testPin, pin, em, cache, p) ==
    CHOOSE c \in
        {[xs |-> cell.xs, ys |-> cell.ys,
          lineError |-> calculateLineError(em, cell.xs, cell.ys, effectiveWidth(p))
                            * cell.weight] :
            cell \in {[xs |-> cache.x[idx], ys |-> cache.y[idx],
                       weight |-> cache.weight[idx]] :
                         idx \in {cacheIndex(testPin, pin, p)}}} : TRUE

\* the loop over validPins from position i on; best is the { bestPin, error }
\* pair so far, and the pair after this iteration (next) goes to the following
RECURSIVE BestFrom(_, _, _, _, _, _, _)
BestFrom(validPins, i, pin, em, cache, p, best) ==
    IF i > Len(validPins) THEN best
    ELSE CHOOSE result \in
             {BestFrom(validPins, i + 1, pin, em, cache, p, next) :
                 next \in
                     {IF c.xs # Null /\ c.ys # Null /\ c.lineError > best.error
                      THEN [bestPin |-> validPins[i], error |-> c.lineError]
                      ELSE best :
                         c \in {Candidate(validPins[i], pin, em, cache, p)}}} : TRUE

\* variant: the search starts from bestPin = 0 instead of -1
findBestNextPinFromZero(pin, em, cache, excludePins, p) ==
    CHOOSE result \in
        {BestFrom(validPins, 1, pin, em, cache, p, [bestPin |-> 0, error |-> -1]) :
            validPins \in
                {getValidTargetPins(pin, p.minDistance, p.numberOfPins, excludePins)}} :
        TRUE

findBestNextPin(pin, em, cache, excludePins, p) ==
    CHOOSE result \in
        {BestFrom(validPins, 1, pin, em, cache, p, [bestPin |-> -1, error |-> -1]) :
            validPins \in
                {getValidTargetPins(pin, p.minDistance, p.numberOfPins, excludePins)}} :
        TRUE

\* ----------------------------------------------------------------- state
VARIABLES
    params,             \* the merged StringArtParameters
    imageData,          \* the processed pixel buffer (flat byte array)
    enginePc,           \* position of generateStringArt: "pins", "cache", "optimize"
    pinCoords,          \* pin coordinates, pin id = position - 1
    lineCache,          \* the precalculated lines
    onProgress,         \* per run: is a progress callback supplied
    pc,                 \* per run: "ready", "loop", "yield", "done"
    active,             \* the run holding the thread, or NoRun
    errorMatrix,        \* per run: the private error matrix
    lineSequence,       \* per run
    currentPin,         \* per run
    totalThreadLength,  \* per run, scaled by LengthScale
    lastPins,           \* per run: recently visited pins
    lineIndex,          \* per run: the loop counter
    progressLog,        \* per run: the progress events passed to the callback
    call,               \* the utility function being called, with its arguments
    result,             \* what that call returned or threw
    sequence,           \* PinSequencePlayer: the sequence prop
    utterance,          \* the utterance handed to speechSynthesis, if any
    timeouts,           \* the pending auto-advance timers
    timeoutRef,         \* timeoutRef.current: the auto-advance timer set last
    listenTimeout,      \* the pending timer of the WAITING_TO_LISTEN effect
    advanceTimeout,     \* the pending timer of the CONFIRMED effect
    recognition         \* the pin index the running recognition expects, if any

vars == << params, imageData, enginePc, pinCoords, lineCache, onProgress, pc, active,
           errorMatrix, lineSequence, currentPin, totalThreadLength, lastPins,
           lineIndex, progressLog, call, result, sequence, utterance, timeouts,
           timeoutRef, listenTimeout, advanceTimeout, recognition >>

utilVars == << call, result >>
componentVars == << sequence, utterance, timeouts, timeoutRef, listenTimeout,
                   advanceTimeout, recognition >>
inputVars == << params, imageData, onProgress >>
layoutVars == << pinCoords, lineCache >>
runVars == << errorMatrix, lineSequence, currentPin, totalThreadLength, lastPins,
              lineIndex, progressLog >>

\* no utility function has been called
NoCall == [op |-> "none"]
Pending == [status |-> "pending"]
\* no PinSequencePlayer is mounted
Unmounted ==
    /\ sequence = << >>
    /\ utterance = << >>
    /\ timeouts = {}
    /\ timeoutRef = << >>
    /\ listenTimeout = << >>
    /\ advanceTimeout = << >>
    /\ recognition = << >>

UtilIdle == call = NoCall /\ result = Pending /\ Unmounted

ParameterSets ==
    { [shape |-> "circle", numberOfPins |-> n, numberOfLines |-> l, lineWeight |-> lw,
       minDistance |-> m, imgSize |-> MaxImgSize, hoopDiameter |-> 500,
       width |-> 0, height |-> 0] :
         n \in CirclePinCounts, l \in LineCounts, lw \in LineWeights, m \in MinDistances }
    \cup
    { [shape |-> "rectangle", numberOfPins |-> n, numberOfLines |-> l, lineWeight |-> lw,
       minDistance |-> m, imgSize |-> MaxImgSize, hoopDiameter |-> 500,
       width |-> d[1], height |-> d[2]] :
         n \in RectPinCounts, l \in LineCounts, lw \in LineWeights, m \in MinDistances,
         d \in RectDims }

Init ==
    /\ params \in ParameterSets
    /\ \E pattern \in ImagePatterns :
           imageData = PixelBuffer(pattern, TargetWidth(params) * TargetHeight(params))
    \* the runs are interchangeable: of two mirrored choices one is kept
    /\ onProgress \in {f \in [Runs -> BOOLEAN] : f[1] \/ ~f[2]}
    /\ enginePc = "pins"
    /\ pinCoords = <<>>
    /\ lineCache = [x |-> <<>>, y |-> <<>>, length |-> <<>>, weight |-> <<>>]
    /\ pc = [r \in Runs |-> "ready"]
    /\ active = NoRun
    /\ errorMatrix = [r \in Runs |-> <<>>]
    /\ lineSequence = [r \in Runs |-> <<>>]
    /\ currentPin = [r \in Runs |-> 0]
    /\ totalThreadLength = [r \in Runs |-> 0]
    /\ lastPins = [r \in Runs |-> <<>>]
    /\ lineIndex = [r \in Runs |-> 0]
    /\ progressLog = [r \in Runs |-> <<>>]
    /\ UtilIdle

\* generateStringArt step 2
CalculatePins ==
    /\ enginePc = "pins"
    /\ pinCoords' = calculatePins(params)
    /\ enginePc' = "cache"
    /\ UNCHANGED << componentVars, utilVars, inputVars, lineCache, pc, active, runVars >>

\* generateStringArt step 3
PrecalculateLines ==
    /\ enginePc = "cache"
    /\ lineCache' = precalculateLineCache(pinCoords, params.minDistance)
    /\ enginePc' = "optimize"
    /\ UNCHANGED << componentVars, utilVars, inputVars, pinCoords, pc, active, runVars >>

\* variant: a run that starts while another run's matrix exists works on that
\* matrix instead of a fresh one
StartOnLiveMatrix(r) ==
    /\ enginePc = "optimize"
    /\ active = NoRun
    /\ pc[r] = "ready"
    /\ errorMatrix' =
           [errorMatrix EXCEPT ![r] =
               IF \E o \in Runs : errorMatrix[o] # <<>>
               THEN errorMatrix[CHOOSE o \in Runs : errorMatrix[o] # <<>>]
               ELSE createErrorMatrix(imageData)]
    /\ lineSequence' = [lineSequence EXCEPT ![r] = <<0>>]
    /\ currentPin' = [currentPin EXCEPT ![r] = 0]
    /\ totalThreadLength' = [totalThreadLength EXCEPT ![r] = 0]
    /\ lastPins' = [lastPins EXCEPT ![r] = <<>>]
    /\ lineIndex' = [lineIndex EXCEPT ![r] = 0]
    /\ pc' = [pc EXCEPT ![r] = "loop"]
    /\ active' = r
    /\ UNCHANGED << componentVars, utilVars, inputVars, enginePc, layoutVars, progressLog >>

\* generateStringArt steps 4 and 5: createErrorMatrix, then the call of
\* optimizeStringArt up to its loop
Start(r) ==
    /\ enginePc = "optimize"
    /\ active = NoRun
    /\ pc[r] = "ready"
    /\ errorMatrix' = [errorMatrix EXCEPT ![r] = createErrorMatrix(imageData)]
    /\ lineSequence' = [lineSequence EXCEPT ![r] = <<0>>]
    /\ currentPin' = [currentPin EXCEPT ![r] = 0]
    /\ totalThreadLength' = [totalThreadLength EXCEPT ![r] = 0]
    /\ lastPins' = [lastPins EXCEPT ![r] = <<>>]
    /\ lineIndex' = [lineIndex EXCEPT ![r] = 0]
    /\ pc' = [pc EXCEPT ![r] = "loop"]
    /\ active' = r
    /\ UNCHANGED << componentVars, utilVars, inputVars, enginePc, layoutVars, progressLog >>

\* variant: the loop runs while lineIndex <= numberOfLines
LoopConditionInclusive(r) == lineIndex[r] <= params.numberOfLines

\* the for-loop condition
LoopCondition(r) == lineIndex[r] < params.numberOfLines

InLoop(r) ==
    /\ active = r
    /\ pc[r] = "loop"
    /\ LoopCondition(r)

\* variant: every run searches on the first run's error matrix
BestPinOnFirstMatrix(r) ==
    findBestNextPin(currentPin[r], errorMatrix[1], lineCache, lastPins[r], params).bestPin

BestPin(r) ==
    findBestNextPin(currentPin[r], errorMatrix[r], lineCache, lastPins[r], params).bestPin

\* variant: progress is reported on every tenth iteration only
ReportsProgressOnTenth(r, index) ==
    /\ onProgress[r]
    /\ index % ProgressInterval = 0

\* variant: progress is reported on every fifth iteration and on the last
ReportsProgressOnFifth(r, index) ==
    /\ onProgress[r]
    /\ (index % (ProgressInterval \div 2) = 0 \/ index = params.numberOfLines - 1)

\* does the iteration with this loop counter report progress
ReportsProgress(r, index) ==
    /\ onProgress[r]
    /\ (index % ProgressInterval = 0 \/ index = params.numberOfLines - 1)

\* variant: once the list is full the new pin is dropped instead of the oldest
pushLastPinKeepOldest(pins, bestPin) ==
    IF Len(pins) + 1 > LastPinsCapacity THEN pins ELSE Append(pins, bestPin)

\* lastPins.push(bestPin); if (lastPins.length > 20) lastPins.shift()
pushLastPin(pins, bestPin) ==
    IF Len(pins) + 1 > LastPinsCapacity THEN Tail(Append(pins, bestPin))
                                        ELSE Append(pins, bestPin)

\* distance * scaleFactor, scaled by LengthScale
threadLengthOfLine(from, to, p) ==
    (calculatePinDistance(from, to, LengthScale) * scaleFactor(p)[1])
        \div scaleFactor(p)[2]

\* variant: the sequence records pin numbers counted from 1
DrawLineOneBased(r, bestPin) ==
    LET idx == cacheIndex(bestPin, currentPin[r], params)
        xs == lineCache.x[idx]
        ys == lineCache.y[idx]
    IN  /\ lineSequence' = [lineSequence EXCEPT ![r] = Append(@, bestPin + 1)]
        /\ errorMatrix' =
               [errorMatrix EXCEPT ![r] =
                   IF xs # Null /\ ys # Null
                   THEN applyLineMask(@, xs, ys, params.lineWeight, effectiveWidth(params))
                   ELSE @]
        /\ totalThreadLength' =
               [totalThreadLength EXCEPT ![r] =
                   @ + threadLengthOfLine(pinCoords[currentPin[r] + 1],
                                          pinCoords[bestPin + 1], params)]
        /\ lastPins' = [lastPins EXCEPT ![r] = pushLastPin(@, bestPin)]
        /\ currentPin' = [currentPin EXCEPT ![r] = bestPin]

\* variant: the sequence records the pin the line leaves, not the pin it reaches
DrawLineFromPin(r, bestPin) ==
    LET idx == cacheIndex(bestPin, currentPin[r], params)
        xs == lineCache.x[idx]
        ys == lineCache.y[idx]
    IN  /\ lineSequence' = [lineSequence EXCEPT ![r] = Append(@, currentPin[r])]
        /\ errorMatrix' =
               [errorMatrix EXCEPT ![r] =
                   IF xs # Null /\ ys # Null
                   THEN applyLineMask(@, xs, ys, params.lineWeight, effectiveWidth(params))
                   ELSE @]
        /\ totalThreadLength' =
               [totalThreadLength EXCEPT ![r] =
                   @ + threadLengthOfLine(pinCoords[currentPin[r] + 1],
                                          pinCoords[bestPin + 1], params)]
        /\ lastPins' = [lastPins EXCEPT ![r] = pushLastPin(@, bestPin)]
        /\ currentPin' = [currentPin EXCEPT ![r] = bestPin]

\* the body of one loop iteration up to "currentPin = bestPin"
DrawLine(r, bestPin) ==
    LET idx == cacheIndex(bestPin, currentPin[r], params)
        xs == lineCache.x[idx]
        ys == lineCache.y[idx]
    IN  /\ lineSequence' = [lineSequence EXCEPT ![r] = Append(@, bestPin)]
        /\ errorMatrix' =
               [errorMatrix EXCEPT ![r] =
                   IF xs # Null /\ ys # Null
                   THEN applyLineMask(@, xs, ys, params.lineWeight, effectiveWidth(params))
                   ELSE @]
        /\ totalThreadLength' =
               [totalThreadLength EXCEPT ![r] =
                   @ + threadLengthOfLine(pinCoords[currentPin[r] + 1],
                                          pinCoords[bestPin + 1], params)]
        /\ lastPins' = [lastPins EXCEPT ![r] = pushLastPin(@, bestPin)]
        /\ currentPin' = [currentPin EXCEPT ![r] = bestPin]

\* the progress record built in the loop, with the sequence snapshot
progressEvent(r) ==
    [linesDrawn |-> lineIndex[r] + 1,
     totalLines |-> params.numberOfLines,
     percentComplete |->
         ((lineIndex[r] + 1) * 100 * PercentScale) \div params.numberOfLines,
     currentPin |-> currentPin'[r],
     nextPin |-> currentPin'[r],
     threadLength |-> totalThreadLength'[r],
     sequence |-> lineSequence'[r]]

\* optimizeStringArt called on its own, as a function of its arguments: the
\* loop from iteration index on, st holding the function's local variables
RECURSIVE OptimizeFrom(_, _, _, _, _)
OptimizeFrom(st, index, coords, cache, p) ==
    IF index >= p.numberOfLines THEN st
    ELSE CHOOSE final \in
             {IF bestPin = -1 THEN st
              ELSE OptimizeFrom(
                       [errorMatrix |->
                            LET idx == cacheIndex(bestPin, st.currentPin, p)
                            IN  IF cache.x[idx] # Null /\ cache.y[idx] # Null
                                THEN applyLineMask(st.errorMatrix, cache.x[idx], cache.y[idx],
                                                   p.lineWeight, effectiveWidth(p))
                                ELSE st.errorMatrix,
                        lineSequence |-> Append(st.lineSequence, bestPin),
                        totalThreadLength |->
                            st.totalThreadLength
                                + threadLengthOfLine(coords[st.currentPin + 1],
                                                     coords[bestPin + 1], p),
                        lastPins |-> pushLastPin(st.lastPins, bestPin),
                        currentPin |-> bestPin],
                       index + 1, coords, cache, p) :
                 bestPin \in {findBestNextPin(st.currentPin, st.errorMatrix, cache,
                                              st.lastPins, p).bestPin}} : TRUE

optimizeStringArt(em, coords, cache, p) ==
    LET st == OptimizeFrom([errorMatrix |-> em, lineSequence |-> << 0 >>,
                            totalThreadLength |-> 0, lastPins |-> << >>,
                            currentPin |-> 0], 0, coords, cache, p)
    IN  [lineSequence |-> st.lineSequence, totalThreadLength |-> st.totalThreadLength]

\* bestPin === -1: warn and break; the function returns
StepStall(r) ==
    /\ InLoop(r)
    /\ \E bestPin \in {BestPin(r)} : bestPin = -1
    /\ pc' = [pc EXCEPT ![r] = "done"]
    /\ active' = NoRun
    /\ UNCHANGED << componentVars, utilVars, inputVars, enginePc, layoutVars, runVars >>

\* variant: the run awaits the scheduler after every iteration
StepDrawYielding(r) ==
    /\ InLoop(r)
    /\ ~ReportsProgress(r, lineIndex[r])
    /\ \E bestPin \in {BestPin(r)} : bestPin # -1 /\ DrawLine(r, bestPin)
    /\ pc' = [pc EXCEPT ![r] = "yield"]
    /\ active' = NoRun
    /\ UNCHANGED << componentVars, utilVars, inputVars, enginePc, layoutVars, lineIndex, progressLog >>

\* an iteration that reports no progress: the loop continues synchronously
StepDraw(r) ==
    /\ InLoop(r)
    /\ ~ReportsProgress(r, lineIndex[r])
    /\ \E bestPin \in {BestPin(r)} : bestPin # -1 /\ DrawLine(r, bestPin)
    /\ lineIndex' = [lineIndex EXCEPT ![r] = @ + 1]
    /\ UNCHANGED << componentVars, utilVars, inputVars, enginePc, layoutVars, pc, active, progressLog >>

\* an iteration that calls onProgress and then awaits setTimeout(0)
StepDrawReport(r) ==
    /\ InLoop(r)
    /\ ReportsProgress(r, lineIndex[r])
    /\ \E bestPin \in {BestPin(r)} : bestPin # -1 /\ DrawLine(r, bestPin)
    /\ progressLog' = [progressLog EXCEPT ![r] = Append(@, progressEvent(r))]
    /\ pc' = [pc EXCEPT ![r] = "yield"]
    /\ active' = NoRun
    /\ UNCHANGED << componentVars, utilVars, inputVars, enginePc, layoutVars, lineIndex >>

\* the timer fires: the run resumes after the await and lineIndex++ runs
Resume(r) ==
    /\ active = NoRun
    /\ pc[r] = "yield"
    /\ pc' = [pc EXCEPT ![r] = "loop"]
    /\ lineIndex' = [lineIndex EXCEPT ![r] = @ + 1]
    /\ active' = r
    /\ UNCHANGED << componentVars, utilVars, inputVars, enginePc, layoutVars, errorMatrix, lineSequence,
                    currentPin, totalThreadLength, lastPins, progressLog >>

\* the loop condition fails: return { lineSequence, totalThreadLength }
Return(r) ==
    /\ active = r
    /\ pc[r] = "loop"
    /\ ~LoopCondition(r)
    /\ pc' = [pc EXCEPT ![r] = "done"]
    /\ active' = NoRun
    /\ UNCHANGED << componentVars, utilVars, inputVars, enginePc, layoutVars, runVars >>

Next ==
    \/ CalculatePins
    \/ PrecalculateLines
    \/ \E r \in Runs : Start(r)
    \/ \E r \in Runs : StepStall(r)
    \/ \E r \in Runs : StepDraw(r)
    \/ \E r \in Runs : StepDrawReport(r)
    \/ \E r \in Runs : Resume(r)
    \/ \E r \in Runs : Return(r)

Spec == Init /\ [][Next]_vars

\* setTimeout(0) always fires and synchronous code always runs on
LiveSpec == Spec /\ WF_vars(Next)

\* ---------------------------------------------------------- pin layout alone
\* calculatePins over a wider range of rectangles: only the layout step runs
MaxLayoutPins == 14
LayoutPinCounts == 3..MaxLayoutPins
LayoutDims == {<<100, 100>>, <<200, 100>>, <<100, 300>>, <<300, 200>>, <<1000, 10>>}
LayoutImgSizes == {MaxImgSize, 10 * MaxImgSize + 1}

LayoutParameterSets ==
    { [shape |-> "rectangle", numberOfPins |-> n, numberOfLines |-> 1, lineWeight |-> 20,
       minDistance |-> 1, imgSize |-> size, hoopDiameter |-> 500,
       width |-> d[1], height |-> d[2]] :
         n \in LayoutPinCounts, d \in LayoutDims, size \in LayoutImgSizes }

LayoutInit ==
    /\ params \in LayoutParameterSets
    /\ imageData = PixelBuffer("white", TargetWidth(params) * TargetHeight(params))
    /\ onProgress = [r \in Runs |-> FALSE]
    /\ enginePc = "pins"
    /\ pinCoords = <<>>
    /\ lineCache = [x |-> <<>>, y |-> <<>>, length |-> <<>>, weight |-> <<>>]
    /\ pc = [r \in Runs |-> "ready"]
    /\ active = NoRun
    /\ errorMatrix = [r \in Runs |-> <<>>]
    /\ lineSequence = [r \in Runs |-> <<>>]
    /\ currentPin = [r \in Runs |-> 0]
    /\ totalThreadLength = [r \in Runs |-> 0]
    /\ lastPins = [r \in Runs |-> <<>>]
    /\ lineIndex = [r \in Runs |-> 0]
    /\ progressLog = [r \in Runs |-> <<>>]
    /\ UtilIdle

LayoutNext == CalculatePins

LayoutSpec == LayoutInit /\ [][LayoutNext]_vars

\* ------------------------------------------------------ utility functions
\* the engine before any generation, while a utility function is called
EngineIdle ==
    /\ params = [shape |-> "circle", numberOfPins |-> 4, numberOfLines |-> 1,
                 lineWeight |-> 20, minDistance |-> 1, imgSize |-> MaxImgSize,
                 hoopDiameter |-> 500, width |-> 0, height |-> 0]
    /\ imageData = PixelBuffer("white", MaxImgSize * MaxImgSize)
    /\ onProgress = [r \in Runs |-> FALSE]
    /\ enginePc = "pins"
    /\ pinCoords = <<>>
    /\ lineCache = [x |-> <<>>, y |-> <<>>, length |-> <<>>, weight |-> <<>>]
    /\ pc = [r \in Runs |-> "ready"]
    /\ active = NoRun
    /\ errorMatrix = [r \in Runs |-> <<>>]
    /\ lineSequence = [r \in Runs |-> <<>>]
    /\ currentPin = [r \in Runs |-> 0]
    /\ totalThreadLength = [r \in Runs |-> 0]
    /\ lastPins = [r \in Runs |-> <<>>]
    /\ lineIndex = [r \in Runs |-> 0]
    /\ progressLog = [r \in Runs |-> <<>>]

engineVars == << inputVars, enginePc, layoutVars, pc, active, runVars >>

\* an optional field of a Partial<...> argument: <<>> when undefined, <<v>>
\* when supplied
Undefined == <<>>
Supplied(field) == field # Undefined

\* -------------------------------------------------- parameter validation
\* a numeric argument v is held as v * ValueScale, so that non-integers occur
ValueScale == 2
Whole(v) == v * ValueScale
Fraction(v) == v * ValueScale + 1
IsInteger(h) == h % ValueScale = 0

Msg(cond, text) == IF cond THEN << text >> ELSE <<>>

validateStringArtParameters(p) ==
    LET errors ==
            (IF Supplied(p.numberOfPins)
             THEN Msg(p.numberOfPins[1] < Whole(3), "Number of pins must be at least 3")
                  \o Msg(p.numberOfPins[1] > Whole(1000),
                         "Number of pins should not exceed 1000")
                  \o Msg(~IsInteger(p.numberOfPins[1]), "Number of pins must be an integer")
             ELSE <<>>)
            \o
            (IF Supplied(p.numberOfLines)
             THEN Msg(p.numberOfLines[1] < Whole(1), "Number of lines must be at least 1")
                  \o Msg(p.numberOfLines[1] > Whole(10000),
                         "Number of lines should not exceed 10000")
                  \o Msg(~IsInteger(p.numberOfLines[1]),
                         "Number of lines must be an integer")
             ELSE <<>>)
            \o
            (IF Supplied(p.lineWeight)
             THEN Msg(p.lineWeight[1] < Whole(1), "Line weight must be at least 1")
                  \o Msg(p.lineWeight[1] > Whole(100), "Line weight should not exceed 100")
             ELSE <<>>)
            \o
            (IF Supplied(p.minDistance)
             THEN Msg(p.minDistance[1] < Whole(1), "Minimum distance must be at least 1")
                  \o Msg(p.minDistance[1] > Whole(50),
                         "Minimum distance should not exceed 50")
             ELSE <<>>)
            \o
            (IF Supplied(p.imgSize)
             THEN Msg(p.imgSize[1] < Whole(100), "Image size must be at least 100")
                  \o Msg(p.imgSize[1] > Whole(2000), "Image size should not exceed 2000")
                  \o Msg(~IsInteger(p.imgSize[1]), "Image size must be an integer")
             ELSE <<>>)
    IN  [isValid |-> Len(errors) = 0, errors |-> errors]

validatePinParameters(p) ==
    LET errors ==
            (IF Supplied(p.numberOfPins)
             THEN Msg(p.numberOfPins[1] < Whole(3), "Number of pins must be at least 3")
                  \o Msg(p.numberOfPins[1] > Whole(1000),
                         "Number of pins should not exceed 1000 for performance reasons")
                  \o Msg(~IsInteger(p.numberOfPins[1]), "Number of pins must be an integer")
             ELSE <<>>)
            \o
            (IF Supplied(p.imgSize)
             THEN Msg(p.imgSize[1] < Whole(100), "Image size must be at least 100 pixels")
                  \o Msg(p.imgSize[1] > Whole(2000),
                         "Image size should not exceed 2000 pixels for performance reasons")
                  \o Msg(~IsInteger(p.imgSize[1]), "Image size must be an integer")
             ELSE <<>>)
    IN  [isValid |-> Len(errors) = 0, errors |-> errors]

\* the values tried for each field: undefined, both ends of the accepted
\* range, their outer neighbours, and a non-integer inside the range
Optional(values) == {Undefined} \cup {<< v >> : v \in values}

ValidationInputs ==
    [numberOfPins : Optional({Whole(2), Whole(3), Fraction(3), Whole(1000), Whole(1001)}),
     numberOfLines : Optional({Whole(0), Whole(1), Fraction(1), Whole(10000),
                               Whole(10001)}),
     lineWeight : Optional({Whole(0), Whole(1), Whole(100), Whole(101), Whole(255),
                            Whole(256)}),
     minDistance : Optional({Whole(0), Whole(1), Whole(50), Whole(51)}),
     imgSize : Optional({Whole(99), Whole(100), Fraction(100), Whole(2000),
                         Whole(2001)})]

ValidationInit ==
    /\ EngineIdle
    /\ Unmounted
    /\ call \in {[op |-> "validate", params |-> p] : p \in ValidationInputs}
    /\ result = Pending

Validate ==
    /\ call.op = "validate"
    /\ result = Pending
    /\ result' = [status |-> "returned",
                  engine |-> validateStringArtParameters(call.params),
                  pins |-> validatePinParameters(call.params)]
    /\ UNCHANGED << call, engineVars, componentVars >>

ValidationNext == Validate

ValidationSpec == ValidationInit /\ [][ValidationNext]_vars

\* ------------------------------------------------------- yarn conversion
\* a || d: d when a is undefined or 0
OrElse(field, d) == IF Supplied(field) /\ field[1] # 0 THEN field[1] ELSE d

\* a Tex value is an exact fraction << numerator, denominator >>
Zero == << 0, 1 >>

\* variant: the ply count is ignored for dtex
normalizeToTexSinglePly(spec) ==
    LET safePly == OrElse(spec.ply, 1)
    IN  CASE spec.type = "tex" -> << OrElse(spec.tex, 0), 1 >>
          [] spec.type = "dtex" -> << OrElse(spec.dtex, 0), 10 >>
          [] spec.type = "denier" -> << OrElse(spec.denier, 0) * safePly, 9 >>
          [] spec.type = "nm" ->
                 IF OrElse(spec.nm, 0) = 0 THEN Zero ELSE << 1000 * safePly, spec.nm[1] >>
          [] spec.type = "length_weight" ->
                 IF OrElse(spec.meters, 0) = 0 THEN Zero
                 ELSE << OrElse(spec.grams, 0) * 1000, spec.meters[1] >>
          [] spec.type = "ticket" ->
                 IF OrElse(spec.ticketNo, 0) = 0 THEN Zero ELSE << 3000, spec.ticketNo[1] >>
          [] OTHER -> Zero

normalizeToTex(spec) ==
    LET safePly == OrElse(spec.ply, 1)
    IN  CASE spec.type = "tex" -> << OrElse(spec.tex, 0), 1 >>
          [] spec.type = "dtex" -> << OrElse(spec.dtex, 0) * safePly, 10 >>
          [] spec.type = "denier" -> << OrElse(spec.denier, 0) * safePly, 9 >>
          [] spec.type = "nm" ->
                 IF OrElse(spec.nm, 0) = 0 THEN Zero ELSE << 1000 * safePly, spec.nm[1] >>
          [] spec.type = "length_weight" ->
                 IF OrElse(spec.meters, 0) = 0 THEN Zero
                 ELSE << OrElse(spec.grams, 0) * 1000, spec.meters[1] >>
          [] spec.type = "ticket" ->
                 IF OrElse(spec.ticketNo, 0) = 0 THEN Zero ELSE << 3000, spec.ticketNo[1] >>
          [] OTHER -> Zero

\* a thread thickness in mm is held in units of 1 / ThicknessScale mm
ThicknessScale == 100

\* opacity = (threadThicknessMM / (hoopDiameterMM / imgSizePx)) * 255
calculateLineWeight(threadThickness, hoopDiameterMM, imgSizePx) ==
    IF imgSizePx <= 0 \/ hoopDiameterMM <= 0 THEN 1
    ELSE Max(1, Min(255, Round(threadThickness * imgSizePx * 255,
                               ThicknessScale * hoopDiameterMM)))

\* density in kg/m^3 by material
Density(material) ==
    CASE material = "cotton" -> 1540
      [] material = "nylon" -> 1140
      [] OTHER -> 1380

\* pi as a fraction
PiFraction == << 355, 113 >>

\* diameters are held in units of 1 / ThicknessScale mm.  From Tex:
\* 2 * sqrt(tex * 1e-6 / rho / pi) * 1000 mm, floored to that unit.
calculateDiameterMM(spec) ==
    IF OrElse(spec.overrideDiameterMM, 0) > 0 THEN spec.overrideDiameterMM[1]
    ELSE IF spec.type = "diameter_mm" THEN OrElse(spec.diameterMM, 0)
    ELSE LET tex == normalizeToTex(spec)
         IN  IF tex[1] <= 0 THEN 0
             ELSE Isqrt((4 * ThicknessScale * ThicknessScale * tex[1] * PiFraction[2])
                            \div (tex[2] * Density(spec.material) * PiFraction[1]))

\* the visual multiplier k is held in tenths; the default is 1.10
DefaultK == 11
KScale == 10

calculateThreadThicknessMM(spec) ==
    (calculateDiameterMM(spec) * OrElse(spec.k, DefaultK)) \div KScale

YarnTypes == {"tex", "dtex", "denier", "nm", "length_weight", "ticket", "diameter_mm"}

EmptyYarn(type) ==
    [type |-> type, material |-> "polyester", k |-> Undefined,
     overrideDiameterMM |-> Undefined, ticketNo |-> Undefined, nm |-> Undefined,
     ply |-> Undefined, tex |-> Undefined, dtex |-> Undefined, denier |-> Undefined,
     meters |-> Undefined, grams |-> Undefined, diameterMM |-> Undefined]

YarnSpecs ==
    {[EmptyYarn("tex") EXCEPT !.tex = v, !.ply = n] :
        v \in Optional({0, 30}), n \in Optional({2})}
    \cup
    {[EmptyYarn("dtex") EXCEPT !.dtex = v, !.ply = n] :
        v \in Optional({0, 141}), n \in Optional({0, 1, 2})}
    \cup
    {[EmptyYarn("denier") EXCEPT !.denier = v, !.ply = n] :
        v \in Optional({120}), n \in Optional({0, 1, 3})}
    \cup
    {[EmptyYarn("nm") EXCEPT !.nm = v, !.ply = n] :
        v \in Optional({0, 71}), n \in Optional({0, 1, 2})}
    \cup
    {[EmptyYarn("length_weight") EXCEPT !.meters = m, !.grams = g, !.ply = n] :
        m \in Optional({0, 125}), g \in Optional({0, 50}), n \in Optional({2})}
    \cup
    {[EmptyYarn("ticket") EXCEPT !.ticketNo = v, !.ply = n] :
        v \in Optional({0, 120}), n \in Optional({2})}
    \cup
    {EmptyYarn("diameter_mm")}

LineWeightCalls ==
    [threadThickness : {0, 1, 15, 17, 50, 120, 300},
     hoopDiameterMM : {0, 100, 500, 12700},
     imgSizePx : {0, 100, 500, 2000}]

\* ------------------------------------------------- parameter preparation
\* DEFAULT_CONFIG
N_PINS == 288
MAX_LINES == 4000
LINE_WEIGHT == 20
MIN_DISTANCE == 20
IMG_SIZE == 500
SCALE == 20
HOOP_DIAMETER == 500

\* a ?? d: d when a is undefined
Coalesce(field, d) == IF Supplied(field) THEN field[1] ELSE d

\* HOOP_DIAMETER * 25.4
HoopDiameterFallback == (HOOP_DIAMETER * 254) \div 10

\* generateStringArt up to "Merge with default parameters"
mergeParameters(p) ==
    LET lineWeight ==
            IF Supplied(p.yarnSpec)
            THEN calculateLineWeight(calculateThreadThicknessMM(p.yarnSpec[1]),
                                     Coalesce(p.hoopDiameter, HoopDiameterFallback),
                                     Coalesce(p.imgSize, IMG_SIZE))
            ELSE Coalesce(p.lineWeight, LINE_WEIGHT)
    IN  [shape |-> Coalesce(p.shape, "circle"),
         numberOfPins |-> Coalesce(p.numberOfPins, N_PINS),
         numberOfLines |-> Coalesce(p.numberOfLines, MAX_LINES),
         lineWeight |-> lineWeight,
         minDistance |-> Coalesce(p.minDistance, MIN_DISTANCE),
         imgSize |-> Coalesce(p.imgSize, IMG_SIZE),
         scale |-> Coalesce(p.scale, SCALE),
         hoopDiameter |-> Coalesce(p.hoopDiameter, HoopDiameterFallback),
         width |-> p.width,
         height |-> p.height,
         yarnSpec |-> p.yarnSpec]

\* { ...defaults, ...overrides }
createDefaultParameters(overrides) ==
    [shape |-> Coalesce(overrides.shape, "circle"),
     numberOfPins |-> Coalesce(overrides.numberOfPins, N_PINS),
     numberOfLines |-> Coalesce(overrides.numberOfLines, MAX_LINES),
     lineWeight |-> Coalesce(overrides.lineWeight, LINE_WEIGHT),
     minDistance |-> Coalesce(overrides.minDistance, MIN_DISTANCE),
     imgSize |-> Coalesce(overrides.imgSize, IMG_SIZE),
     scale |-> Coalesce(overrides.scale, SCALE),
     hoopDiameter |-> Coalesce(overrides.hoopDiameter, HOOP_DIAMETER),
     width |-> overrides.width,
     height |-> overrides.height,
     yarnSpec |-> overrides.yarnSpec]

\* yarn specifications handed to the engine: diameters in 1/ThicknessScale mm
EngineYarnSpecs ==
    {[EmptyYarn("diameter_mm") EXCEPT !.diameterMM = << 20 >>],
     [EmptyYarn("tex") EXCEPT !.tex = << 30 >>, !.overrideDiameterMM = << 50 >>,
                              !.k = << 10 >>],
     [EmptyYarn("tex") EXCEPT !.tex = << 30 >>, !.material = "cotton"]}

PartialParameters ==
    {[shape |-> sh, numberOfPins |-> n, numberOfLines |-> l, lineWeight |-> lw,
      minDistance |-> m, imgSize |-> size, scale |-> Undefined, hoopDiameter |-> hd,
      width |-> wh[1], height |-> wh[2], yarnSpec |-> y] :
        sh \in Optional({"circle", "rectangle"}), n \in Optional({24}),
        l \in Optional({MaxLines}), lw \in Optional({50}), m \in Optional({2}),
        size \in Optional({100}), hd \in Optional({300}),
        wh \in {<< Undefined, Undefined >>, << << 200 >>, << 100 >> >>},
        y \in Optional(EngineYarnSpecs)}

ParameterInit ==
    /\ EngineIdle
    /\ Unmounted
    /\ call \in {[op |-> "normalizeToTex", spec |-> y] : y \in YarnSpecs}
               \cup {[op |-> "calculateLineWeight", args |-> a] : a \in LineWeightCalls}
               \cup {[op |-> "generateStringArt", params |-> p] : p \in PartialParameters}
               \cup {[op |-> "createDefaultParameters", params |-> p] :
                        p \in PartialParameters}
    /\ result = Pending

NormalizeToTex ==
    /\ call.op = "normalizeToTex"
    /\ result = Pending
    /\ result' = [status |-> "returned", tex |-> normalizeToTex(call.spec)]
    /\ UNCHANGED << call, engineVars, componentVars >>

CalculateLineWeight ==
    /\ call.op = "calculateLineWeight"
    /\ result = Pending
    /\ result' = [status |-> "returned",
                  lineWeight |-> calculateLineWeight(call.args.threadThickness,
                                                     call.args.hoopDiameterMM,
                                                     call.args.imgSizePx)]
    /\ UNCHANGED << call, engineVars, componentVars >>

MergeParameters ==
    /\ call.op = "generateStringArt"
    /\ result = Pending
    /\ result' = [status |-> "returned", parameters |-> mergeParameters(call.params)]
    /\ UNCHANGED << call, engineVars, componentVars >>

CreateDefaultParameters ==
    /\ call.op = "createDefaultParameters"
    /\ result = Pending
    /\ result' = [status |-> "returned",
                  parameters |-> createDefaultParameters(call.params)]
    /\ UNCHANGED << call, engineVars, componentVars >>

ParameterNext ==
    \/ NormalizeToTex
    \/ CalculateLineWeight
    \/ MergeParameters
    \/ CreateDefaultParameters

ParameterSpec == ParameterInit /\ [][ParameterNext]_vars

\* ---------------------------------------------------------------------------
\* Sequence sharing codec (sequenceCompression.ts, current version).
\* Numbers handed to compressSequence are fixed-point values (ValueScale), so
\* that non-integers can be passed; bytes and decoded values are plain
\* integers.  Strings are sequences of one-character strings.
\* ---------------------------------------------------------------------------
MaxSequenceLength == 2     \* longest pin sequence handed to compressSequence
UINT16_MAX == 65535
ByteRange == 256

Returned(fields) == [status |-> "returned"] @@ fields
Thrown(error, message) == [status |-> "thrown", error |-> error, message |-> message]

\* the value of a fixed-point number that passed Number.isInteger
Num(h) == h \div ValueScale

\* the mutation of the uint16 test that forgets the upper limit
IsUint16NoUpperLimit(h) == IsInteger(h) /\ h >= 0

\* !(!Number.isInteger(v) || v < 0 || v > 65535)
IsUint16(h) == IsInteger(h) /\ h >= 0 /\ h <= Whole(UINT16_MAX)

\* DataView.setUint8: the value modulo 2^8
setUint8(v) == << v % ByteRange >>

\* the mutation that writes the low byte first
setUint16LittleEndian(v) == << v % ByteRange, (v \div ByteRange) % ByteRange >>

\* DataView.setUint16 (big-endian by default): the value modulo 2^16
setUint16(v) == << (v \div ByteRange) % ByteRange, v % ByteRange >>

\* DataView.getUint8 / getUint16 at a zero-based byte offset
getUint8(bytes, offset) == bytes[offset + 1]
getUint16(bytes, offset) == bytes[offset + 1] * ByteRange + bytes[offset + 2]

\* for (i = 0; i < sequence.length; i++) view.setUint16(offset, sequence[i])
RECURSIVE WriteSequence(_)
WriteSequence(items) ==
    IF items = << >> THEN << >>
    ELSE setUint16(Head(items)) \o WriteSequence(Tail(items))

\* for (i = 8; i < length; i += 2) sequence.push(view.getUint16(i))
RECURSIVE ReadSequence(_, _)
ReadSequence(bytes, offset) ==
    IF offset >= Len(bytes) THEN << >>
    ELSE << getUint16(bytes, offset) >> \o ReadSequence(bytes, offset + 2)

\* gzip container: the member header (magic 1f 8b, method deflate), the
\* payload, and a trailer holding a checksum and the payload size.  The
\* deflate coding of the payload is lossless and is kept as the payload
\* itself; the CRC-32 is kept as a byte sum.
GzipMagic == << 31, 139, 8 >>

RECURSIVE ByteSum(_)
ByteSum(bytes) ==
    IF bytes = << >> THEN 0 ELSE (Head(bytes) + ByteSum(Tail(bytes))) % ByteRange

Gzip(bytes) == GzipMagic \o bytes \o << ByteSum(bytes), Len(bytes) % ByteRange >>

\* DecompressionStream('gzip'): fails on anything that is not a whole member
Gunzip(data) ==
    LET n == Len(data)
        payload == SubSeq(data, Len(GzipMagic) + 1, n - 2)
    IN  IF /\ n >= Len(GzipMagic) + 2
           /\ SubSeq(data, 1, Len(GzipMagic)) = GzipMagic
           /\ data[n - 1] = ByteSum(payload)
           /\ data[n] = Len(payload) % ByteRange
        THEN [ok |-> TRUE, bytes |-> payload]
        ELSE [ok |-> FALSE, bytes |-> << >>]

Base64Alphabet ==
    << "A", "B", "C", "D", "E", "F", "G", "H", "I", "J", "K", "L", "M",
       "N", "O", "P", "Q", "R", "S", "T", "U", "V", "W", "X", "Y", "Z",
       "a", "b", "c", "d", "e", "f", "g", "h", "i", "j", "k", "l", "m",
       "n", "o", "p", "q", "r", "s", "t", "u", "v", "w", "x", "y", "z",
       "0", "1", "2", "3", "4", "5", "6", "7", "8", "9", "+", "/" >>

Base64Chars == {Base64Alphabet[i] : i \in 1..Len(Base64Alphabet)}
Digit(sextet) == Base64Alphabet[sextet + 1]
Sextet(char) == (CHOOSE i \in 1..Len(Base64Alphabet) : Base64Alphabet[i] = char) - 1

\* btoa: three bytes to four characters, '=' padding on the last group
RECURSIVE btoa(_)
btoa(bytes) ==
    IF bytes = << >> THEN << >>
    ELSE IF Len(bytes) = 1
    THEN << Digit(bytes[1] \div 4), Digit((bytes[1] % 4) * 16), "=", "=" >>
    ELSE IF Len(bytes) = 2
    THEN << Digit(bytes[1] \div 4),
            Digit((bytes[1] % 4) * 16 + bytes[2] \div 16),
            Digit((bytes[2] % 16) * 4), "=" >>
    ELSE << Digit(bytes[1] \div 4),
            Digit((bytes[1] % 4) * 16 + bytes[2] \div 16),
            Digit((bytes[2] % 16) * 4 + bytes[3] \div 64),
            Digit(bytes[3] % 64) >> \o btoa(SubSeq(bytes, 4, Len(bytes)))

\* String.replace(/x/g, y) on one character
Replace(str, from, to) == [i \in 1..Len(str) |-> IF str[i] = from THEN to ELSE str[i]]

\* .replace(/=+$/, '')
RECURSIVE StripPadding(_)
StripPadding(str) ==
    IF str # << >> /\ str[Len(str)] = "="
    THEN StripPadding(SubSeq(str, 1, Len(str) - 1))
    ELSE str

ToBase64Url(str) == StripPadding(Replace(Replace(str, "+", "-"), "/", "_"))

\* while (base64.length % 4) base64 += '='
RECURSIVE Pad(_)
Pad(str) == IF Len(str) % 4 # 0 THEN Pad(Append(str, "=")) ELSE str

FromBase64Url(str) == Pad(Replace(Replace(str, "-", "+"), "_", "/"))

RECURSIVE DecodeSextets(_)
DecodeSextets(str) ==
    IF Len(str) < 2 THEN << >>
    ELSE LET s1 == Sextet(str[1])
             s2 == Sextet(str[2])
         IN  IF Len(str) = 2 THEN << s1 * 4 + s2 \div 16 >>
             ELSE LET s3 == Sextet(str[3])
                  IN  IF Len(str) = 3
                      THEN << s1 * 4 + s2 \div 16, (s2 % 16) * 16 + s3 \div 4 >>
                      ELSE << s1 * 4 + s2 \div 16,
                              (s2 % 16) * 16 + s3 \div 4,
                              (s3 % 4) * 64 + Sextet(str[4]) >>
                           \o DecodeSextets(SubSeq(str, 5, Len(str)))

\* atob (forgiving base64 decode): at most two trailing '=' are dropped when
\* the length is a multiple of four; any other character outside the
\* alphabet, or a length of 4k+1, is an InvalidCharacterError
atob(str) ==
    LET n == Len(str)
        body == IF n % 4 = 0 /\ n > 0 /\ str[n] = "="
                THEN IF str[n - 1] = "=" THEN SubSeq(str, 1, n - 2)
                     ELSE SubSeq(str, 1, n - 1)
                ELSE str
    IN  IF Len(body) % 4 = 1 \/ \E i \in 1..Len(body) : body[i] \notin Base64Chars
        THEN [ok |-> FALSE, bytes |-> << >>]
        ELSE [ok |-> TRUE, bytes |-> DecodeSextets(body)]

\* the mutation of compressSequence's header writer is setUint16LittleEndian
compressSequence(a) ==
    LET shape == Coalesce(a.shape, "circle")
        width == Coalesce(a.width, Whole(500))
        height == Coalesce(a.height, Whole(500))
    IN  IF ~IsUint16(a.numberOfPins)
        THEN Thrown("RangeError", "numberOfPins must be a uint16 integer")
        ELSE IF ~IsUint16(width)
        THEN Thrown("RangeError", "width must be a uint16 integer")
        ELSE IF ~IsUint16(height)
        THEN Thrown("RangeError", "height must be a uint16 integer")
        ELSE IF ~a.sequence.isArray
        THEN Thrown("TypeError", "sequence must be an array")
        ELSE IF \E i \in 1..Len(a.sequence.items) : ~IsUint16(a.sequence.items[i])
        THEN Thrown("RangeError", "Sequence value is invalid (must be uint16)")
        ELSE LET items == [i \in 1..Len(a.sequence.items) |-> Num(a.sequence.items[i])]
                 buffer == setUint8(1)
                           \o setUint8(IF shape = "circle" THEN 0 ELSE 1)
                           \o setUint16(Num(width))
                           \o setUint16(Num(height))
                           \o setUint16(Num(a.numberOfPins))
                           \o WriteSequence(items)
             IN  Returned([encoded |-> ToBase64Url(btoa(Gzip(buffer)))])

\* the reader that accepts any version byte and any trailing byte count
readBufferLenient(bytes) ==
    IF Len(bytes) < 8
    THEN Thrown("Error", "Invalid sequence data: insufficient header length")
    ELSE Returned([data |->
             [sequence |-> ReadSequence(SubSeq(bytes, 1, Len(bytes) - (Len(bytes) % 2)), 8),
              numberOfPins |-> getUint16(bytes, 6),
              shape |-> IF getUint8(bytes, 1) = 1 THEN "rectangle" ELSE "circle",
              width |-> getUint16(bytes, 2),
              height |-> getUint16(bytes, 4)]])

\* decompressSequence from the decompressed bytes on
readBuffer(bytes) ==
    IF Len(bytes) < 8
    THEN Thrown("Error", "Invalid sequence data: insufficient header length")
    ELSE IF getUint8(bytes, 0) # 1
    THEN Thrown("Error", "Invalid data version: expected 1")
    ELSE IF (Len(bytes) - 8) % 2 # 0
    THEN Thrown("Error", "Invalid sequence data: length mismatch for 16-bit sequence")
    ELSE Returned([data |->
             [sequence |-> ReadSequence(bytes, 8),
              numberOfPins |-> getUint16(bytes, 6),
              shape |-> IF getUint8(bytes, 1) = 1 THEN "rectangle" ELSE "circle",
              width |-> getUint16(bytes, 2),
              height |-> getUint16(bytes, 4)]])

\* the bytes decompressSequence obtains from the encoded string, if any
DecodedBuffer(encoded) ==
    LET compressedData == atob(FromBase64Url(encoded))
    IN  IF compressedData.ok THEN Gunzip(compressedData.bytes) ELSE compressedData

decompressSequence(encoded) ==
    LET compressedData == atob(FromBase64Url(encoded))
    IN  IF ~compressedData.ok
        THEN Thrown("InvalidCharacterError", "The string to be decoded is not correctly encoded")
        ELSE LET decompressed == Gunzip(compressedData.bytes)
             IN  IF ~decompressed.ok
                 THEN Thrown("Error", "Decompression failed: Invalid Gzip data")
                 ELSE readBuffer(decompressed.bytes)

\* --- inputs ---
RECURSIVE SeqsUpTo(_, _)
SeqsUpTo(S, n) ==
    IF n = 0 THEN {<< >>}
    ELSE LET shorter == SeqsUpTo(S, n - 1)
         IN  shorter \cup {Append(s, v) : s \in shorter, v \in S}

SequenceValues == {Whole(0), Whole(258), Whole(UINT16_MAX), Whole(-1), Fraction(10)}

SequenceArguments ==
    {[isArray |-> TRUE, items |-> s] : s \in SeqsUpTo(SequenceValues, MaxSequenceLength)}
        \cup {[isArray |-> FALSE, items |-> << >>]}

CompressArguments ==
    [sequence : SequenceArguments,
     numberOfPins : {Whole(0), Whole(288), Whole(UINT16_MAX), Whole(-1), Whole(70000),
                     Fraction(100)},
     shape : Optional({"circle", "rectangle"}),
     width : Optional({Whole(800), Whole(-10)}),
     height : Optional({Whole(UINT16_MAX), Whole(70000)})]

\* decoded buffers built by hand, as the test suite does: every version and
\* shape byte of interest, with zero to four trailing bytes, and headers that
\* are too short
RawBuffers ==
    {<< version, shapeType >> \o setUint16(500) \o setUint16(height) \o setUint16(100)
         \o trailing :
        version \in {0, 1, 2}, shapeType \in {0, 1, 2, 255}, height \in {500, UINT16_MAX},
        trailing \in {<< >>, << 0 >>, << 0, 7 >>, << 0, 7, 1 >>, << 1, 2, 255, 255 >>}}
        \cup {<< >>, << 1 >>, << 1, 0, 1, 244 >>, << 1, 0, 1, 244, 1, 244, 0 >>,
              << 2, 0, 1, 244, 1, 244, 0 >>}

\* strings handed to decompressSequence that no encoder produced
EncodedStrings ==
    {ToBase64Url(btoa(Gzip(b))) : b \in RawBuffers}
        \cup {ToBase64Url(btoa(b)) : b \in {<< 1, 0, 1, 244, 1, 244, 0, 100 >>, << 31, 139 >>}}
        \cup {<< >>, << "%", "%", "%" >>, << "H" >>, << "H", "4", "s", "=", "A" >>}

CodecInit ==
    /\ EngineIdle
    /\ Unmounted
    /\ call \in {[op |-> "compressSequence", args |-> a] : a \in CompressArguments}
               \cup {[op |-> "decompressSequence", encoded |-> e, shared |-> Undefined] :
                        e \in EncodedStrings}
    /\ result = Pending

CompressSequence ==
    /\ call.op = "compressSequence"
    /\ result = Pending
    /\ result' = compressSequence(call.args)
    /\ UNCHANGED << call, engineVars, componentVars >>

\* the encoded string travels in the share URL and is handed to the decoder
RestoreShared ==
    /\ call.op = "compressSequence"
    /\ result.status = "returned"
    /\ call' = [op |-> "decompressSequence", encoded |-> result.encoded,
                shared |-> << call.args >>]
    /\ result' = Pending
    /\ UNCHANGED << engineVars, componentVars >>

DecompressSequence ==
    /\ call.op = "decompressSequence"
    /\ result = Pending
    /\ result' = decompressSequence(call.encoded)
    /\ UNCHANGED << call, engineVars, componentVars >>

CodecNext ==
    \/ CompressSequence
    \/ RestoreShared
    \/ DecompressSequence

CodecSpec == CodecInit /\ [][CodecNext]_vars

\* ---------------------------------------------------------------------------
\* Player reducer and its voice-control state machine (PinSequencePlayer).
\* A nullable field is None (null) or << v >>.  The player state carries
\* the voice-control state next to the playback fields the voice events must
\* leave alone.
\* ---------------------------------------------------------------------------
MaxStep == 2     \* largest currentStep a SET_CURRENT_STEP payload carries

None == Undefined

InitialVoiceControl ==
    [enabled |-> FALSE, mode |-> "keyword", keyword |-> "okay", phase |-> "DISABLED",
     statusMessage |-> None, scheduledListenTime |-> None, listeningForPinIndex |-> None]

InitialPlayerState ==
    [currentStep |-> 0, isPlaying |-> FALSE, voiceControl |-> InitialVoiceControl]

WithVoiceControl(state, changes) ==
    [state EXCEPT !.voiceControl = changes @@ state.voiceControl]

VoiceControlEnable(state, action) ==
    IF state.voiceControl.enabled THEN state
    ELSE WithVoiceControl(state,
             [enabled |-> TRUE, phase |-> "IDLE", statusMessage |-> None,
              scheduledListenTime |-> None, listeningForPinIndex |-> None])

\* the mutation that keeps the status message on DISABLE
VoiceControlDisableKeepsStatus(state, action) ==
    IF ~state.voiceControl.enabled THEN state
    ELSE WithVoiceControl(state,
             [enabled |-> FALSE, phase |-> "DISABLED",
              scheduledListenTime |-> None, listeningForPinIndex |-> None])

VoiceControlDisable(state, action) ==
    IF ~state.voiceControl.enabled THEN state
    ELSE WithVoiceControl(state,
             [enabled |-> FALSE, phase |-> "DISABLED", statusMessage |-> None,
              scheduledListenTime |-> None, listeningForPinIndex |-> None])

\* the mutation that changes the mode whether or not voice control is enabled
VoiceControlSetModeAlways(state, action) ==
    WithVoiceControl(state, [mode |-> action.payload])

VoiceControlSetMode(state, action) ==
    IF ~state.voiceControl.enabled THEN state
    ELSE WithVoiceControl(state, [mode |-> action.payload])

VoiceControlSetKeyword(state, action) ==
    IF ~state.voiceControl.enabled THEN state
    ELSE WithVoiceControl(state, [keyword |-> action.payload])

VoiceControlSpeechStarted(state, action) ==
    IF \/ ~state.voiceControl.enabled
       \/ (state.voiceControl.phase # "IDLE" /\ state.voiceControl.phase # "CONFIRMED")
    THEN state
    ELSE WithVoiceControl(state,
             [phase |-> "WAITING_TO_LISTEN",
              scheduledListenTime |-> << action.payload.scheduledTime >>,
              listeningForPinIndex |-> << action.payload.pinIndex >>,
              statusMessage |-> None])

\* the mutation that starts listening from every enabled phase
VoiceControlStartListeningAnyPhase(state, action) ==
    IF ~state.voiceControl.enabled THEN state
    ELSE WithVoiceControl(state,
             [phase |-> "LISTENING",
              listeningForPinIndex |-> << action.payload.pinIndex >>,
              scheduledListenTime |-> None,
              statusMessage |-> << action.payload.statusMessage >>])

VoiceControlStartListening(state, action) ==
    IF ~state.voiceControl.enabled \/ state.voiceControl.phase # "WAITING_TO_LISTEN"
    THEN state
    ELSE WithVoiceControl(state,
             [phase |-> "LISTENING",
              listeningForPinIndex |-> << action.payload.pinIndex >>,
              scheduledListenTime |-> None,
              statusMessage |-> << action.payload.statusMessage >>])

VoiceControlUpdateStatus(state, action) ==
    IF ~state.voiceControl.enabled \/ state.voiceControl.phase # "LISTENING"
    THEN state
    ELSE WithVoiceControl(state, [statusMessage |-> << action.payload >>])

VoiceControlConfirmed(state, action) ==
    IF ~state.voiceControl.enabled \/ state.voiceControl.phase # "LISTENING"
    THEN state
    ELSE WithVoiceControl(state,
             [phase |-> "CONFIRMED", statusMessage |-> << "Confirmed" >>])

VoiceControlReset(state, action) ==
    IF ~state.voiceControl.enabled THEN state
    ELSE WithVoiceControl(state,
             [phase |-> "IDLE", scheduledListenTime |-> None,
              listeningForPinIndex |-> None, statusMessage |-> None])

\* the mutation that reports the error but stays in the current phase
VoiceControlErrorKeepsPhase(state, action) ==
    IF ~state.voiceControl.enabled THEN state
    ELSE WithVoiceControl(state,
             [scheduledListenTime |-> None, listeningForPinIndex |-> None,
              statusMessage |-> << "Error: " \o action.payload >>])

VoiceControlError(state, action) ==
    IF ~state.voiceControl.enabled THEN state
    ELSE WithVoiceControl(state,
             [phase |-> "IDLE", scheduledListenTime |-> None,
              listeningForPinIndex |-> None,
              statusMessage |-> << "Error: " \o action.payload >>])

playerReducer(state, action) ==
    CASE action.type = "SET_CURRENT_STEP" -> [state EXCEPT !.currentStep = action.payload]
      [] action.type = "SET_IS_PLAYING" -> [state EXCEPT !.isPlaying = action.payload]
      [] action.type = "RESET_PLAYBACK" ->
             [state EXCEPT !.currentStep = action.payload, !.isPlaying = FALSE]
      [] action.type = "VOICE_CONTROL_ENABLE" -> VoiceControlEnable(state, action)
      [] action.type = "VOICE_CONTROL_DISABLE" -> VoiceControlDisable(state, action)
      [] action.type = "VOICE_CONTROL_SET_MODE" -> VoiceControlSetMode(state, action)
      [] action.type = "VOICE_CONTROL_SET_KEYWORD" -> VoiceControlSetKeyword(state, action)
      [] action.type = "VOICE_CONTROL_SPEECH_STARTED" ->
             VoiceControlSpeechStarted(state, action)
      [] action.type = "VOICE_CONTROL_START_LISTENING" ->
             VoiceControlStartListening(state, action)
      [] action.type = "VOICE_CONTROL_UPDATE_STATUS" ->
             VoiceControlUpdateStatus(state, action)
      [] action.type = "VOICE_CONTROL_CONFIRMED" -> VoiceControlConfirmed(state, action)
      [] action.type = "VOICE_CONTROL_RESET" -> VoiceControlReset(state, action)
      [] action.type = "VOICE_CONTROL_ERROR" -> VoiceControlError(state, action)
      [] OTHER -> state

\* --- dispatched actions ---
VoiceModes == {"number", "keyword"}
Keywords == {"okay", "next"}
PinIndexes == {0, 1}
ScheduledTimes == {1000, 2000}
StatusMessages == {"Listening for okay", "Heard: maybe"}
ErrorPayloads == {"not-allowed", "network"}

PlayerInit ==
    /\ EngineIdle
    /\ Unmounted
    /\ call = [op |-> "useReducer"]
    /\ result = Returned([state |-> InitialPlayerState])

\* dispatch(action): the reducer runs on the current state
Dispatch(action) ==
    /\ result.status = "returned"
    /\ call' = [op |-> "playerReducer", state |-> result.state, action |-> action]
    /\ result' = Returned([state |-> playerReducer(result.state, action)])
    /\ UNCHANGED << engineVars, componentVars >>

DispatchSetCurrentStep ==
    \E step \in 0..MaxStep : Dispatch([type |-> "SET_CURRENT_STEP", payload |-> step])

DispatchSetIsPlaying ==
    \E playing \in BOOLEAN : Dispatch([type |-> "SET_IS_PLAYING", payload |-> playing])

DispatchEnable == Dispatch([type |-> "VOICE_CONTROL_ENABLE"])

DispatchDisable == Dispatch([type |-> "VOICE_CONTROL_DISABLE"])

DispatchSetMode ==
    \E mode \in VoiceModes : Dispatch([type |-> "VOICE_CONTROL_SET_MODE", payload |-> mode])

DispatchSetKeyword ==
    \E keyword \in Keywords :
        Dispatch([type |-> "VOICE_CONTROL_SET_KEYWORD", payload |-> keyword])

DispatchSpeechStarted ==
    \E pinIndex \in PinIndexes, scheduledTime \in ScheduledTimes :
        Dispatch([type |-> "VOICE_CONTROL_SPEECH_STARTED",
                  payload |-> [pinIndex |-> pinIndex, scheduledTime |-> scheduledTime]])

DispatchStartListening ==
    \E pinIndex \in PinIndexes, statusMessage \in StatusMessages :
        Dispatch([type |-> "VOICE_CONTROL_START_LISTENING",
                  payload |-> [pinIndex |-> pinIndex, statusMessage |-> statusMessage]])

DispatchUpdateStatus ==
    \E statusMessage \in StatusMessages :
        Dispatch([type |-> "VOICE_CONTROL_UPDATE_STATUS", payload |-> statusMessage])

DispatchConfirmed == Dispatch([type |-> "VOICE_CONTROL_CONFIRMED"])

DispatchReset == Dispatch([type |-> "VOICE_CONTROL_RESET"])

DispatchError ==
    \E message \in ErrorPayloads :
        Dispatch([type |-> "VOICE_CONTROL_ERROR", payload |-> message])

PlayerNext ==
    \/ DispatchSetCurrentStep
    \/ DispatchSetIsPlaying
    \/ DispatchEnable
    \/ DispatchDisable
    \/ DispatchSetMode
    \/ DispatchSetKeyword
    \/ DispatchSpeechStarted
    \/ DispatchStartListening
    \/ DispatchUpdateStatus
    \/ DispatchConfirmed
    \/ DispatchReset
    \/ DispatchError

PlayerSpec == PlayerInit /\ [][PlayerNext]_vars

\* ------------------------------------------ PinSequencePlayer component
\* The component around the reducer: its handlers, effects, timers and the
\* speech callbacks.  result.state is the reducer state of the last render,
\* call names the handler that ran last.  A handler's dispatches are batched
\* into one render; the effects whose dependencies changed then run, all
\* cleanups before all bodies, each group in declaration order.  The refs
\* that mirror the state (isPlayingRef, voiceControlRef,
\* voiceControlEnabledRef) equal the state of the last render; speed stays 1.
\* speechSynthesis.cancel() ends an utterance with an error event, never with
\* an end event.  The recognition runs until it is stopped.

MaxPlayerSteps == 3     \* longest sequence handed to the player

baseDelay == 600

PlayerPins == 0..(MaxPlayerSteps - 1)

\* the sequence props: they start at pin 0 and never repeat a pin at once;
\* the player treats all pins alike, so of the sequences that differ only in
\* the names of the pins the one that uses the pins in ascending order is kept
PlayerSequences ==
    {s \in UNION {[1..n -> PlayerPins] : n \in (MaxPlayerSteps - 1)..MaxPlayerSteps} :
        /\ s[1] = 0
        /\ \A i \in 1..(Len(s) - 1) : s[i] # s[i + 1]
        /\ \A i \in 2..Len(s) : \A pin \in 0..(s[i] - 1) : \E j \in 1..(i - 1) : s[j] = pin}

\* the pin lists typed into the search box
SearchQueries == UNION {[1..n -> PlayerPins] : n \in 1..2}

SetCurrentStep(step) == [type |-> "SET_CURRENT_STEP", payload |-> step]
SetIsPlaying(playing) == [type |-> "SET_IS_PLAYING", payload |-> playing]

\* the state after the dispatched actions, in order
RECURSIVE Reduce(_, _)
Reduce(state, actions) ==
    IF actions = << >> THEN state
    ELSE Reduce(playerReducer(state, Head(actions)), Tail(actions))

\* the refs and timers of the component, as one record
Component ==
    [utterance |-> utterance, timeouts |-> timeouts, timeoutRef |-> timeoutRef,
     listenTimeout |-> listenTimeout, advanceTimeout |-> advanceTimeout,
     recognition |-> recognition]

\* the closure of an auto-advance timer: the step and sequence.length it saw
AutoAdvance(step, seq) == [currentStep |-> step, seqLen |-> Len(seq)]

\* timeoutRef.current = setTimeout(...)
setTimeoutRef(c, t) == [c EXCEPT !.timeouts = @ \cup {t}, !.timeoutRef = << t >>]

\* if (timeoutRef.current) clearTimeout(timeoutRef.current); the id of a
\* cleared timer is as good as none
clearTimeoutRef(c) ==
    [c EXCEPT !.timeouts = IF c.timeoutRef = None THEN @ ELSE @ \ {c.timeoutRef[1]},
              !.timeoutRef = None]

\* window.speechSynthesis.cancel()
cancelSpeech(c) == [c EXCEPT !.utterance = None]

\* window.speechSynthesis.speaking
speaking(c) == c.utterance # None /\ c.utterance[1].started

speakPin(c, pinIndex, seq) ==
    IF pinIndex >= Len(seq) THEN cancelSpeech(c)
    ELSE [c EXCEPT !.utterance = << [pinIndex |-> pinIndex, started |-> FALSE] >>]

\* the status message of the LISTENING phase
WaitingStatus(vc, seq) ==
    "Waiting for \"" \o (IF vc.mode = "number"
                          THEN ToString(seq[vc.listeningForPinIndex[1] + 1])
                          ELSE vc.keyword) \o "\"..."

\* effect on [voiceControl.enabled]: resume auto-progression on disabling
DisableEffect(prev, next, c, seq) ==
    IF /\ prev.voiceControl.enabled # next.voiceControl.enabled
       /\ ~next.voiceControl.enabled
       /\ next.isPlaying
       /\ ~speaking(c)
    THEN setTimeoutRef(clearTimeoutRef(c), AutoAdvance(next.currentStep, seq))
    ELSE c

PhaseChanged(prev, next) ==
    \/ prev.voiceControl.phase # next.voiceControl.phase
    \/ prev.voiceControl.scheduledListenTime # next.voiceControl.scheduledListenTime

\* effect on [phase, scheduledListenTime], its cleanup: clearTimeout of the
\* timer the previous run set
PhaseCleanup(prev, next, c) ==
    IF PhaseChanged(prev, next)
    THEN [c EXCEPT !.listenTimeout = None, !.advanceTimeout = None]
    ELSE c

\* effect on [phase, scheduledListenTime], its body: the voice control state
\* machine controller
PhaseEffect(prev, next, c, seq) ==
    IF ~PhaseChanged(prev, next) THEN c
    ELSE CASE next.voiceControl.phase = "DISABLED" -> [c EXCEPT !.recognition = None]
           [] next.voiceControl.phase = "WAITING_TO_LISTEN" ->
                  IF next.voiceControl.scheduledListenTime = None THEN c
                  ELSE [c EXCEPT !.listenTimeout = next.voiceControl.scheduledListenTime]
           [] next.voiceControl.phase = "LISTENING" ->
                  IF c.recognition = None /\ next.voiceControl.listeningForPinIndex # None
                  THEN [c EXCEPT !.recognition = next.voiceControl.listeningForPinIndex]
                  ELSE c
           [] next.voiceControl.phase = "CONFIRMED" ->
                  [c EXCEPT !.recognition = None,
                            !.advanceTimeout = << AutoAdvance(next.currentStep, seq) >>]
           [] OTHER -> c

PlaybackChanged(prev, next) ==
    prev.currentStep # next.currentStep \/ prev.isPlaying # next.isPlaying

\* effect on [currentStep, isPlaying], its cleanup
PlaybackCleanup(prev, next, c) ==
    IF PlaybackChanged(prev, next) THEN clearTimeoutRef(cancelSpeech(c)) ELSE c

\* effect on [currentStep, isPlaying], its body
PlaybackEffect(prev, next, c, seq) ==
    IF PlaybackChanged(prev, next) /\ next.isPlaying
    THEN speakPin(c, next.currentStep, seq)
    ELSE c

\* the effects of the render that takes the state from prev to next
Render(prev, next, c, seq) ==
    LET cleaned == PlaybackCleanup(prev, next, PhaseCleanup(prev, next, c))
    IN  PlaybackEffect(prev, next,
            PhaseEffect(prev, next, DisableEffect(prev, next, cleaned, seq), seq), seq)

\* the handler op ran: it left the refs as c and the sequence prop as seq,
\* dispatched the actions, and the component rendered
Commit(op, actions, c, seq) ==
    /\ result.status = "returned"
    /\ call' = [op |-> op]
    /\ \E next \in {Reduce(result.state, actions)} :
           /\ result' = Returned([state |-> next])
           /\ \E rendered \in {Render(result.state, next, c, seq)} :
                  /\ utterance' = rendered.utterance
                  /\ timeouts' = rendered.timeouts
                  /\ timeoutRef' = rendered.timeoutRef
                  /\ listenTimeout' = rendered.listenTimeout
                  /\ advanceTimeout' = rendered.advanceTimeout
                  /\ recognition' = rendered.recognition
    /\ sequence' = seq
    /\ UNCHANGED engineVars

\* the component after mounting with initialStep = 0
PlaybackInit ==
    /\ EngineIdle
    /\ call = [op |-> "mount"]
    /\ result = Returned([state |-> InitialPlayerState])
    /\ sequence \in PlayerSequences
    /\ utterance = None
    /\ timeouts = {}
    /\ timeoutRef = None
    /\ listenTimeout = None
    /\ advanceTimeout = None
    /\ recognition = None

TogglePlay ==
    IF result.state.isPlaying
    THEN Commit("togglePlay",
                << SetIsPlaying(FALSE) >>
                    \o (IF result.state.voiceControl.enabled
                        THEN << [type |-> "VOICE_CONTROL_RESET"] >> ELSE << >>),
                clearTimeoutRef(cancelSpeech(Component)), sequence)
    ELSE Commit("togglePlay",
                << SetIsPlaying(TRUE) >>
                    \o (IF result.state.currentStep >= Len(sequence) - 1
                        THEN << SetCurrentStep(0) >> ELSE << >>),
                Component, sequence)

\* variant: the next button advances whatever the current step
HandleNextUnguarded ==
    Commit("handleNext", << SetCurrentStep(result.state.currentStep + 1) >>,
           Component, sequence)

HandleNext ==
    /\ result.state.currentStep < Len(sequence) - 1
    /\ Commit("handleNext", << SetCurrentStep(result.state.currentStep + 1) >>,
              Component, sequence)

HandlePrev ==
    /\ result.state.currentStep > 0
    /\ Commit("handlePrev", << SetCurrentStep(result.state.currentStep - 1) >>,
              Component, sequence)

\* the step field shows currentStep + 1; val is the number typed
HandleStepInput ==
    \E val \in (0 - 1)..(Len(sequence) + 1) :
        Commit("handleStepInput",
               << SetCurrentStep(Max(0, Min(Len(sequence) - 1, val - 1))) >>,
               Component, sequence)

\* the range input, min 0 and max sequence.length - 1
HandleSlider ==
    \E val \in 0..(Len(sequence) - 1) :
        Commit("slider", << SetCurrentStep(val) >>, Component, sequence)

\* the positions at which searchNums occurs in seq, counted from 0
SearchMatches(seq, searchNums) ==
    {i \in 0..(Len(seq) - Len(searchNums)) :
        \A j \in 0..(Len(searchNums) - 1) : seq[i + j + 1] = searchNums[j + 1]}

HandleSearch ==
    \E searchNums \in SearchQueries :
        \E matches \in {SearchMatches(sequence, searchNums)} :
            Commit("handleSearch",
                   IF Cardinality(matches) = 1
                   THEN << SetCurrentStep((CHOOSE i \in matches : TRUE)
                                              + Len(searchNums) - 1) >>
                   ELSE << >>,
                   Component, sequence)

\* the voice control button
ToggleVoiceControl ==
    Commit("toggleVoiceControl",
           << [type |-> IF result.state.voiceControl.enabled
                        THEN "VOICE_CONTROL_DISABLE" ELSE "VOICE_CONTROL_ENABLE"] >>,
           Component, sequence)

\* utterance.onstart
UtteranceStart ==
    /\ utterance # None
    /\ ~utterance[1].started
    /\ Commit("utterance.onstart",
              IF /\ result.state.voiceControl.enabled
                 /\ result.state.voiceControl.phase \in {"IDLE", "CONFIRMED"}
              THEN << [type |-> "VOICE_CONTROL_SPEECH_STARTED",
                       payload |-> [pinIndex |-> utterance[1].pinIndex,
                                    scheduledTime |-> baseDelay]] >>
              ELSE << >>,
              [Component EXCEPT !.utterance = << [@[1] EXCEPT !.started = TRUE] >>],
              sequence)

\* utterance.onend
UtteranceEnd ==
    /\ utterance # None
    /\ utterance[1].started
    /\ Commit("utterance.onend", << >>,
              IF result.state.isPlaying /\ ~result.state.voiceControl.enabled
              THEN setTimeoutRef(cancelSpeech(Component),
                                 AutoAdvance(utterance[1].pinIndex, sequence))
              ELSE cancelSpeech(Component),
              sequence)

\* an auto-advance timer fires
AutoAdvanceTimeout ==
    \E t \in timeouts :
        Commit("autoAdvanceTimeout",
               IF t.currentStep < t.seqLen - 1
               THEN << SetCurrentStep(t.currentStep + 1) >>
               ELSE << SetIsPlaying(FALSE) >>,
               [Component EXCEPT !.timeouts = @ \ {t},
                                 !.timeoutRef = IF @ = << t >> THEN None ELSE @],
               sequence)

\* the timer of the WAITING_TO_LISTEN phase fires
ListenTimeout ==
    /\ listenTimeout # None
    /\ Commit("listenTimeout",
              IF /\ result.state.voiceControl.phase = "WAITING_TO_LISTEN"
                 /\ result.state.isPlaying
              THEN << [type |-> "VOICE_CONTROL_START_LISTENING",
                       payload |->
                           [pinIndex |-> result.state.voiceControl.listeningForPinIndex[1],
                            statusMessage |->
                                WaitingStatus(result.state.voiceControl, sequence)]] >>
              ELSE << >>,
              [Component EXCEPT !.listenTimeout = None], sequence)

\* the timer of the CONFIRMED phase fires
ConfirmTimeout ==
    /\ advanceTimeout # None
    /\ \E t \in {advanceTimeout[1]} :
           Commit("confirmTimeout",
                  IF t.currentStep < t.seqLen - 1
                  THEN << SetCurrentStep(t.currentStep + 1),
                          [type |-> "VOICE_CONTROL_RESET"] >>
                  ELSE << SetIsPlaying(FALSE), [type |-> "VOICE_CONTROL_RESET"] >>,
                  [Component EXCEPT !.advanceTimeout = None], sequence)

\* useSpeechRecognition onMatch: the expected word was heard
RecognitionMatch ==
    /\ recognition # None
    /\ Commit("onMatch", << [type |-> "VOICE_CONTROL_CONFIRMED"] >>, Component, sequence)

\* useSpeechRecognition onError: the microphone is refused, the recognition ends
RecognitionError ==
    /\ recognition # None
    /\ Commit("onError", << [type |-> "VOICE_CONTROL_ERROR", payload |-> "not-allowed"] >>,
              [Component EXCEPT !.recognition = None], sequence)

\* the parent hands over another sequence (import, initialStep 0): the effect
\* on [sequence, initialStep]
SequenceChange ==
    \E seq \in PlayerSequences \ {sequence} :
        Commit("sequenceChange", << [type |-> "RESET_PLAYBACK", payload |-> 0] >>,
               cancelSpeech(clearTimeoutRef(Component)), seq)

PlaybackNext ==
    \/ TogglePlay
    \/ HandleNext
    \/ HandlePrev
    \/ HandleStepInput
    \/ HandleSlider
    \/ HandleSearch
    \/ ToggleVoiceControl
    \/ UtteranceStart
    \/ UtteranceEnd
    \/ AutoAdvanceTimeout
    \/ ListenTimeout
    \/ ConfirmTimeout
    \/ RecognitionMatch
    \/ RecognitionError

\* the player on one sequence
PlaybackSpec == PlaybackInit /\ [][PlaybackNext]_vars

ReloadNext == PlaybackNext \/ SequenceChange

\* the player whose sequence can be replaced; every scheduled timer and every
\* speech event happens in the end, the user and the recognition are free
ReloadLiveSpec ==
    /\ PlaybackInit
    /\ [][ReloadNext]_vars
    /\ WF_vars(UtteranceStart)
    /\ WF_vars(UtteranceEnd)
    /\ WF_vars(AutoAdvanceTimeout)
    /\ WF_vars(ListenTimeout)
    /\ WF_vars(ConfirmTimeout)

\* ------------------------------------------------------ derived notions
Done(r) == pc[r] = "done"
\* the run left the loop through break
Stalled(r) == Done(r) /\ lineIndex[r] < params.numberOfLines
LinesDrawn(r) == Len(lineSequence[r]) - 1
PinCount == Len(pinCoords)

\* the circular offset from pin "from" forward to pin "to" on a ring of n pins
CircularOffset(from, to, n) == (to - from + n) % n

\* the pins the optimizer may legally move to: those at circular offset
\* minDistance .. pinCount - minDistance - 1 from the current pin that are
\* not among the recently visited pins
LegalNextPins(r) ==
    {c \in 0..(PinCount - 1) :
        /\ CircularOffset(currentPin[r], c, PinCount) >= params.minDistance
        /\ CircularOffset(currentPin[r], c, PinCount) <= PinCount - params.minDistance - 1
        /\ ~Includes(lastPins[r], c)}

\* the score of the line between two pins: the error summed over the samples
\* of the rasterized segment, times the line weight 1
LineScore(em, from, to) ==
    LET line == rasterize(pinCoords[Min(from, to) + 1], pinCoords[Max(from, to) + 1])
    IN  calculateLineError(em, line.xs, line.ys, TargetWidth(params))

\* ---------------------------------------------------------------- claims

\* C1: every element of a run's pin sequence is a valid index into the pin
\* coordinate list, an integer in [0, pinCount) with pinCount the number of
\* coordinates actually laid out, for circles and rectangles alike.
C1_SequenceIndexesPins ==
    \A r \in Runs : \A i \in 1..Len(lineSequence[r]) :
        lineSequence[r][i] \in 0..(PinCount - 1)

C1_Witness ==
    \E r \in Runs :
        /\ Done(r)
        /\ params.shape = "rectangle"
        /\ PinCount # params.numberOfPins
        /\ LinesDrawn(r) >= 3

\* C2: adjacent entries of the pin sequence are at circular index distance
\* min(|p - q|, pinCount - |p - q|) of at least minDistance.
C2_AdjacentMinDistance ==
    \A r \in Runs : \A i \in 1..(Len(lineSequence[r]) - 1) :
        calculateMinPinDistance(lineSequence[r][i], lineSequence[r][i + 1], PinCount)
            >= params.minDistance

C2_Witness ==
    \E r \in Runs :
        /\ Done(r)
        /\ params.minDistance = 2
        /\ LinesDrawn(r) >= 3
        /\ \E i \in 1..(Len(lineSequence[r]) - 1) :
               calculateMinPinDistance(lineSequence[r][i], lineSequence[r][i + 1],
                                       PinCount) = 2

\* C3: after initialisation from the pixel buffer and after every line
\* application every error-matrix cell lies in [0, 255].
C3_ErrorMatrixClamped ==
    \A r \in Runs : \A i \in DOMAIN errorMatrix[r] :
        0 <= errorMatrix[r][i] /\ errorMatrix[r][i] <= 255

\* a cell that a line application clamped to 0
C3_Witness ==
    \E r \in Runs : \E i \in DOMAIN errorMatrix[r] :
        /\ LinesDrawn(r) >= 1
        /\ errorMatrix[r][i] = 0
        /\ (255 - imageData[i]) % params.lineWeight # 0

\* C4: two runs on the same pixel buffer and parameters return the same pin
\* sequence and the same thread length, however their yields and progress
\* callbacks interleave.
C4_Deterministic ==
    (Done(1) /\ Done(2)) =>
        /\ lineSequence[1] = lineSequence[2]
        /\ totalThreadLength[1] = totalThreadLength[2]

C4_Witness ==
    /\ Done(1) /\ Done(2)
    /\ onProgress[1] # onProgress[2]
    /\ LinesDrawn(1) > ProgressInterval
    /\ totalThreadLength[1] > 0

\* C5: when no legal next pin remains before numberOfLines lines are drawn,
\* the optimizer stops at once and returns the sequence built so far, which
\* has fewer than numberOfLines lines.
C5_StallStopsAtOnce ==
    [][\A r \in Runs :
          (InLoop(r) /\ LegalNextPins(r) = {}) =>
              /\ pc'[r] = "done"
              /\ lineSequence'[r] = lineSequence[r]
              /\ totalThreadLength'[r] = totalThreadLength[r]
              /\ LinesDrawn(r) < params.numberOfLines]_vars

C5_Witness ==
    \E r \in Runs :
        /\ Stalled(r)
        /\ LegalNextPins(r) = {}
        /\ params.numberOfPins = 4
        /\ params.minDistance = 1
        /\ params.numberOfLines = MaxLines
        /\ LinesDrawn(r) >= 1

\* C6: every run terminates; it never draws more than numberOfLines lines, a
\* run that does not stall has drawn exactly numberOfLines lines when it
\* returns, and a run that stalls has drawn fewer.
C6_Terminates ==
    /\ \A r \in Runs : <>Done(r)
    /\ [](\A r \in Runs :
            /\ LinesDrawn(r) <= params.numberOfLines
            /\ Len(lineSequence[r]) <= params.numberOfLines + 1
            /\ (Done(r) /\ ~Stalled(r)) => LinesDrawn(r) = params.numberOfLines
            /\ Stalled(r) => LinesDrawn(r) < params.numberOfLines)

C6_Witness ==
    \E r \in Runs :
        /\ Done(r)
        /\ ~Stalled(r)
        /\ LinesDrawn(r) = MaxLines

\* C7: the linesDrawn values passed to the progress callback strictly
\* increase, the percentComplete values never decrease, and on a run that
\* draws all requested lines the last percentComplete is 100.
C7_ProgressMonotonic ==
    \A r \in Runs :
        /\ \A i \in 1..(Len(progressLog[r]) - 1) :
              /\ progressLog[r][i].linesDrawn < progressLog[r][i + 1].linesDrawn
              /\ progressLog[r][i].percentComplete
                     <= progressLog[r][i + 1].percentComplete
        /\ (Done(r) /\ onProgress[r] /\ LinesDrawn(r) = params.numberOfLines) =>
              /\ Len(progressLog[r]) > 0
              /\ progressLog[r][Len(progressLog[r])].percentComplete
                     = 100 * PercentScale

C7_Witness ==
    \E r \in Runs :
        /\ Done(r)
        /\ LinesDrawn(r) = params.numberOfLines
        /\ Len(progressLog[r]) >= 4
        /\ progressLog[r][Len(progressLog[r])].linesDrawn = MaxLines

\* C8: at each step the chosen pin is a candidate with the maximum score,
\* and among the candidates with that score it is the one at the smallest
\* circular offset from the current pin.
C8_ChoosesFirstMaximum ==
    [][\A r \in Runs :
          Len(lineSequence'[r]) = Len(lineSequence[r]) + 1 /\ Len(lineSequence[r]) > 0 =>
              LET chosen == lineSequence'[r][Len(lineSequence'[r])]
                  score(c) == LineScore(errorMatrix[r], currentPin[r], c)
                  offset(c) == CircularOffset(currentPin[r], c, PinCount)
              IN  /\ chosen \in LegalNextPins(r)
                  /\ \A c \in LegalNextPins(r) :
                        /\ score(c) <= score(chosen)
                        /\ score(c) = score(chosen) => offset(chosen) <= offset(c)]_vars

\* C9: no two consecutive entries of the pin sequence are equal.
C9_NoRepeatedPin ==
    \A r \in Runs : \A i \in 1..(Len(lineSequence[r]) - 1) :
        lineSequence[r][i] # lineSequence[r][i + 1]

C9_Witness ==
    \E r \in Runs :
        /\ Done(r)
        /\ LinesDrawn(r) = MaxLines
        /\ \E i \in 3..Len(lineSequence[r]) : lineSequence[r][i] = lineSequence[r][1]

\* C10: for shape circle the pin layout returns exactly numberOfPins
\* coordinates.
C10_CirclePinCount ==
    (params.shape = "circle" /\ enginePc # "pins") => PinCount = params.numberOfPins

C10_Witness ==
    /\ params.shape = "circle"
    /\ enginePc = "cache"
    /\ PinCount = 24

\* C11: for shape rectangle the pin layout returns exactly
\* 2 * (pinsW + pinsH) coordinates, where pinsW and pinsH are the per-side
\* interval counts, each at least 1.
C11_RectanglePinCount ==
    (params.shape = "rectangle" /\ enginePc # "pins") =>
        /\ RectPinsPerSide(params).pinsW >= 1
        /\ RectPinsPerSide(params).pinsH >= 1
        /\ PinCount = 2 * (RectPinsPerSide(params).pinsW + RectPinsPerSide(params).pinsH)

\* a layout whose count differs from the requested one, with interior pins on
\* the vertical sides
C11_Witness ==
    /\ params.shape = "rectangle"
    /\ enginePc = "cache"
    /\ PinCount # params.numberOfPins
    /\ RectPinsPerSide(params).pinsH >= 3
    /\ RectPinsPerSide(params).pinsW >= 2

\* C12: for shape rectangle the corner pixels (0,0), (maxX,0), (maxX,maxY),
\* (0,maxY) stand at 0-based list positions 0, pinsW, pinsW + pinsH and
\* 2*pinsW + pinsH, with maxX and maxY one less than the pixel width and
\* height of the cropped buffer.
C12_RectangleCorners ==
    (params.shape = "rectangle" /\ enginePc # "pins") =>
        LET pinsW == RectPinsPerSide(params).pinsW
            pinsH == RectPinsPerSide(params).pinsH
            maxX == TargetWidth(params) - 1
            maxY == TargetHeight(params) - 1
        IN  /\ pinCoords[0 + 1] = << 0, 0 >>
            /\ pinCoords[pinsW + 1] = << maxX, 0 >>
            /\ pinCoords[pinsW + pinsH + 1] = << maxX, maxY >>
            /\ pinCoords[2 * pinsW + pinsH + 1] = << 0, maxY >>

\* a non-square layout with interior pins on every side
C12_Witness ==
    /\ params.shape = "rectangle"
    /\ enginePc = "cache"
    /\ TargetWidth(params) # TargetHeight(params)
    /\ TargetHeight(params) > 1
    /\ RectPinsPerSide(params).pinsW >= 2
    /\ RectPinsPerSide(params).pinsH >= 2
    /\ PinCount > 2 * RectPinsPerSide(params).pinsW + RectPinsPerSide(params).pinsH

\* the documented range of each parameter
InDocumentedRange(field, low, high) ==
    Supplied(field) => Whole(low) <= field[1] /\ field[1] <= Whole(high)

\* C13: validation reports a parameter set as invalid when a supplied value
\* violates its documented range (pins outside [3,1000] or non-integer,
\* lines outside [1,10000], ink weight outside [1,255], resolution outside
\* [100,2000], minimum distance outside [1,50]) and as valid, with an empty
\* message list, when every supplied value lies inside its documented range.
\* The line count and the resolution are counts (of lines, of pixels) and are
\* taken to be documented as integers, like the pin count.
C13_ValidationMatchesRanges ==
    (call.op = "validate" /\ result.status = "returned") =>
        LET p == call.params
            allInRange ==
                /\ InDocumentedRange(p.numberOfPins, 3, 1000)
                /\ Supplied(p.numberOfPins) => IsInteger(p.numberOfPins[1])
                /\ InDocumentedRange(p.numberOfLines, 1, 10000)
                /\ Supplied(p.numberOfLines) => IsInteger(p.numberOfLines[1])
                /\ InDocumentedRange(p.lineWeight, 1, 255)
                /\ InDocumentedRange(p.imgSize, 100, 2000)
                /\ Supplied(p.imgSize) => IsInteger(p.imgSize[1])
                /\ InDocumentedRange(p.minDistance, 1, 50)
        IN  /\ ~allInRange => ~result.engine.isValid
            /\ allInRange => result.engine.isValid /\ result.engine.errors = <<>>

\* C14: every parameter not supplied to the engine entry point takes its
\* documented default: pins 288, lines 4000, weight 20, minDistance 20,
\* imgSize 500, hoopDiameter 500 mm, shape circle.  (The weight is derived
\* from the yarn specification when one is supplied.)
C14_DocumentedDefaults ==
    (call.op \in {"generateStringArt", "createDefaultParameters"}
        /\ result.status = "returned") =>
        LET p == call.params
            q == result.parameters
        IN  /\ ~Supplied(p.numberOfPins) => q.numberOfPins = 288
            /\ ~Supplied(p.numberOfLines) => q.numberOfLines = 4000
            /\ (~Supplied(p.lineWeight) /\ ~Supplied(p.yarnSpec)) => q.lineWeight = 20
            /\ ~Supplied(p.minDistance) => q.minDistance = 20
            /\ ~Supplied(p.imgSize) => q.imgSize = 500
            /\ ~Supplied(p.hoopDiameter) => q.hoopDiameter = 500
            /\ ~Supplied(p.shape) => q.shape = "circle"

\* weight w is opacity = num / den rounded to the nearest integer and clamped
\* to [1,255]: inside the range w - 1/2 <= opacity < w + 1/2, weight 1 means
\* opacity < 3/2 and weight 255 means opacity >= 255 - 1/2
RoundedAndClamped(w, num, den) ==
    /\ w \in 1..255
    /\ w > 1 => (2 * w - 1) * den <= 2 * num
    /\ w < 255 => 2 * num < (2 * w + 1) * den

\* the physical maximum dimension in mm of the frame the parameters describe
PhysicalMaxDimMM(q) ==
    IF q.shape = "rectangle" /\ Supplied(q.width) /\ Supplied(q.height)
    THEN Max(q.width[1], q.height[1])
    ELSE q.hoopDiameter

\* C15: the ink weight derived from a yarn specification equals
\* round(thicknessMM / pixelSizeMM * 255) clamped to [1,255], where
\* pixelSizeMM is the physical maximum dimension in mm divided by the
\* resolution in pixels; the weight always lies in [1,255].  Stated for
\* calculateLineWeight itself and for the weight the engine derives when a
\* yarn specification is supplied.
C15_LineWeightRoundedAndClamped ==
    /\ (call.op = "calculateLineWeight" /\ result.status = "returned") =>
           /\ result.lineWeight \in 1..255
           /\ (call.args.hoopDiameterMM > 0 /\ call.args.imgSizePx > 0) =>
                  RoundedAndClamped(result.lineWeight,
                                    call.args.threadThickness * call.args.imgSizePx * 255,
                                    ThicknessScale * call.args.hoopDiameterMM)
    /\ (call.op = "generateStringArt" /\ result.status = "returned"
            /\ Supplied(call.params.yarnSpec)) =>
           LET q == result.parameters
           IN  RoundedAndClamped(q.lineWeight,
                                 calculateThreadThicknessMM(q.yarnSpec[1]) * q.imgSize * 255,
                                 ThicknessScale * PhysicalMaxDimMM(q))

\* equality of two fractions
SameFraction(a, b) == a[1] * b[2] = b[1] * a[2]

C17_RoundTrip ==
    (call.op = "decompressSequence" /\ Supplied(call.shared) /\ result # Pending) =>
        LET a == call.shared[1]
        IN  /\ result.status = "returned"
            /\ result.data.sequence =
                   [i \in 1..Len(a.sequence.items) |-> Num(a.sequence.items[i])]
            /\ result.data.numberOfPins = Num(a.numberOfPins)
            /\ result.data.shape = Coalesce(a.shape, "circle")
            /\ result.data.width = Num(Coalesce(a.width, Whole(500)))
            /\ result.data.height = Num(Coalesce(a.height, Whole(500)))

\* a rectangle with a two-element sequence whose values differ in their high
\* and low bytes came back from the decoder
C17_Witness ==
    /\ call.op = "decompressSequence"
    /\ Supplied(call.shared)
    /\ call.shared[1].shape = << "rectangle" >>
    /\ call.shared[1].width = << Whole(800) >>
    /\ call.shared[1].numberOfPins = Whole(288)
    /\ result.status = "returned"
    /\ result.data.sequence = << 258, UINT16_MAX >>
    /\ result.data.width = 800

\* C18: decompressSequence raises an error and returns no data for every
\* decoded buffer whose version byte is not the known version 1, and for every
\* decoded buffer with an odd number of bytes after the 8-byte header.
C18_RejectsVersionAndOddLength ==
    (call.op = "decompressSequence" /\ result # Pending) =>
        LET decoded == DecodedBuffer(call.encoded)
            bytes == decoded.bytes
        IN  (/\ decoded.ok
             /\ \/ Len(bytes) >= 1 /\ getUint8(bytes, 0) # 1
                \/ Len(bytes) > 8 /\ (Len(bytes) - 8) % 2 = 1) =>
                /\ result.status = "thrown"
                /\ "data" \notin DOMAIN result

\* a version-1 buffer with three bytes after the header was rejected
C18_Witness ==
    /\ call.op = "decompressSequence"
    /\ DecodedBuffer(call.encoded).ok
    /\ Len(DecodedBuffer(call.encoded).bytes) = 11
    /\ getUint8(DecodedBuffer(call.encoded).bytes, 0) = 1
    /\ result.status = "thrown"

\* C19: decompressSequence raises an 'Invalid shape type' error for a
\* well-formed version-1 buffer whose shape-type byte is neither 0 nor 1.
C19_InvalidShapeTypeRejected ==
    (call.op = "decompressSequence" /\ result # Pending) =>
        LET decoded == DecodedBuffer(call.encoded)
            bytes == decoded.bytes
        IN  (/\ decoded.ok
             /\ Len(bytes) >= 8
             /\ getUint8(bytes, 0) = 1
             /\ (Len(bytes) - 8) % 2 = 0
             /\ getUint8(bytes, 1) \notin {0, 1}) =>
                /\ result.status = "thrown"
                /\ result.message = "Invalid shape type"

\* C20: compressSequence rejects with a RangeError a pin count, width, height
\* or sequence element that is not an integer in [0,65535], and with a
\* TypeError a sequence that is not an array; in those cases it produces no
\* encoded output.
C20_CompressValidation ==
    (call.op = "compressSequence" /\ result # Pending) =>
        LET a == call.args
            badScalar == \/ ~(IsInteger(a.numberOfPins) /\ Num(a.numberOfPins) \in 0..65535)
                         \/ \E f \in {a.width, a.height} :
                                Supplied(f) /\ ~(IsInteger(f[1]) /\ Num(f[1]) \in 0..65535)
            badElement == /\ a.sequence.isArray
                          /\ \E i \in 1..Len(a.sequence.items) :
                                 LET v == a.sequence.items[i]
                                 IN  ~(IsInteger(v) /\ Num(v) \in 0..65535)
        IN  /\ (badScalar \/ badElement \/ ~a.sequence.isArray) =>
                   /\ result.status = "thrown"
                   /\ "encoded" \notin DOMAIN result
            /\ badScalar => result.error = "RangeError"
            /\ (~badScalar /\ ~a.sequence.isArray) => result.error = "TypeError"
            /\ (~badScalar /\ badElement) => result.error = "RangeError"

\* a non-array sequence with valid numbers was rejected with a TypeError, and
\* so was, elsewhere, a fractional element with a RangeError
C20_Witness ==
    /\ call.op = "compressSequence"
    /\ call.args.numberOfPins = Whole(288)
    /\ call.args.width = Undefined
    /\ call.args.height = Undefined
    /\ ~call.args.sequence.isArray
    /\ result.status = "thrown"
    /\ result.error = "TypeError"

\* the reducer has just run on a voice-control event of the given type
Reduced(type) == call.op = "playerReducer" /\ call.action.type = type

\* C21: a flow event changes the phase only from its designated source phase:
\* SPEECH_STARTED from IDLE or CONFIRMED to WAITING_TO_LISTEN, START_LISTENING
\* from WAITING_TO_LISTEN to LISTENING, CONFIRMED from LISTENING to CONFIRMED;
\* received in any other phase the event leaves the whole state unchanged.
C21_FlowEventsOnlyFromSourcePhase ==
    LET before == call.state
        after == result.state
        Flow(type, sources, target) ==
            Reduced(type) =>
                IF before.voiceControl.phase \in sources
                THEN after.voiceControl.phase = target
                ELSE after = before
    IN  /\ Flow("VOICE_CONTROL_SPEECH_STARTED", {"IDLE", "CONFIRMED"}, "WAITING_TO_LISTEN")
        /\ Flow("VOICE_CONTROL_START_LISTENING", {"WAITING_TO_LISTEN"}, "LISTENING")
        /\ Flow("VOICE_CONTROL_CONFIRMED", {"LISTENING"}, "CONFIRMED")

\* START_LISTENING arrived while the machine was already listening, while
\* playback was running on a later step, and was ignored
C21_Witness ==
    /\ Reduced("VOICE_CONTROL_START_LISTENING")
    /\ call.state.voiceControl.phase = "LISTENING"
    /\ call.state.isPlaying
    /\ call.state.currentStep = 1
    /\ call.action.payload.pinIndex # call.state.voiceControl.listeningForPinIndex[1]
    /\ result.state = call.state

\* C22: while voice control is disabled every voice-control event other than
\* ENABLE leaves the voice-control state unchanged, and ENABLE received while
\* already enabled leaves it unchanged.
C22_DisabledIgnoresEvents ==
    LET before == call.state.voiceControl
        after == result.state.voiceControl
        VoiceEvents == {"VOICE_CONTROL_DISABLE", "VOICE_CONTROL_SET_MODE",
                        "VOICE_CONTROL_SET_KEYWORD", "VOICE_CONTROL_SPEECH_STARTED",
                        "VOICE_CONTROL_START_LISTENING", "VOICE_CONTROL_UPDATE_STATUS",
                        "VOICE_CONTROL_CONFIRMED", "VOICE_CONTROL_RESET",
                        "VOICE_CONTROL_ERROR"}
    IN  /\ (call.op = "playerReducer" /\ call.action.type \in VoiceEvents
                /\ ~before.enabled) => after = before
        /\ (Reduced("VOICE_CONTROL_ENABLE") /\ before.enabled) => after = before

\* a mode change to 'number' arrived while disabled and the mode stayed
\* 'keyword'
C22_Witness ==
    /\ Reduced("VOICE_CONTROL_SET_MODE")
    /\ ~call.state.voiceControl.enabled
    /\ call.action.payload = "number"
    /\ result.state.voiceControl.mode = "keyword"

\* C23: DISABLE received in any enabled phase moves the machine to DISABLED
\* with enabled = false and clears statusMessage, scheduledListenTime and
\* listeningForPinIndex.
C23_DisableFromAnyPhase ==
    (Reduced("VOICE_CONTROL_DISABLE")
         /\ call.state.voiceControl.phase
                \in {"IDLE", "WAITING_TO_LISTEN", "LISTENING", "CONFIRMED"}) =>
        LET after == result.state.voiceControl
        IN  /\ after.phase = "DISABLED"
            /\ ~after.enabled
            /\ after.statusMessage = None
            /\ after.scheduledListenTime = None
            /\ after.listeningForPinIndex = None

\* DISABLE arrived while listening with a status message shown
C23_Witness ==
    /\ Reduced("VOICE_CONTROL_DISABLE")
    /\ call.state.voiceControl.phase = "LISTENING"
    /\ call.state.voiceControl.statusMessage # None
    /\ call.state.voiceControl.listeningForPinIndex # None
    /\ result.state.voiceControl.phase = "DISABLED"

\* C24: ERROR received in any enabled phase returns the machine to IDLE, sets
\* statusMessage to 'Error: ' followed by the payload, and clears
\* scheduledListenTime and listeningForPinIndex.
C24_ErrorResetsToIdle ==
    (Reduced("VOICE_CONTROL_ERROR")
         /\ call.state.voiceControl.phase
                \in {"IDLE", "WAITING_TO_LISTEN", "LISTENING", "CONFIRMED"}) =>
        LET after == result.state.voiceControl
        IN  /\ after.phase = "IDLE"
            /\ after.statusMessage = << "Error: " \o call.action.payload >>
            /\ after.scheduledListenTime = None
            /\ after.listeningForPinIndex = None

\* an error arrived while waiting to listen, with a listen time scheduled
C24_Witness ==
    /\ Reduced("VOICE_CONTROL_ERROR")
    /\ call.state.voiceControl.phase = "WAITING_TO_LISTEN"
    /\ call.state.voiceControl.scheduledListenTime # None
    /\ result.state.voiceControl.phase = "IDLE"
    /\ result.state.voiceControl.statusMessage = << "Error: network" >>

\* the pin a step has just appended to the sequence of run r
Chose(r) == Len(lineSequence'[r]) = Len(lineSequence[r]) + 1 /\ Len(lineSequence[r]) > 0
Chosen(r) == lineSequence'[r][Len(lineSequence'[r])]

\* C25: the optimizer stalls (stops before numberOfLines lines are drawn) if
\* and only if the candidate set, the pins at circular offset minDistance ..
\* pinCount - minDistance - 1 from the current pin that are not in the
\* recent-pins list, is empty.
C25_StallIffNoCandidates ==
    [][\A r \in Runs :
          InLoop(r) => ((pc'[r] = "done") <=> (LegalNextPins(r) = {}))]_vars

\* C26: the optimizer never immediately backtracks: the pin at sequence
\* position i + 2 differs from the pin at position i, for every i.
C26_NoImmediateBacktrack ==
    \A r \in Runs : \A i \in 1..(Len(lineSequence[r]) - 2) :
        lineSequence[r][i + 2] # lineSequence[r][i]

\* C27: the recent-pins list is empty initially and after every step holds,
\* in order of selection, exactly the last min(k, 20) chosen pins, k being the
\* number of lines drawn; it never holds more than 20 and the oldest goes first.
C27_LastPinsAreLatestChosen ==
    \A r \in Runs :
        IF lineSequence[r] = << >> THEN lastPins[r] = << >>
        ELSE LET n == Min(LinesDrawn(r), LastPinsCapacity)
                 last == Len(lineSequence[r])
             IN  /\ Len(lastPins[r]) <= LastPinsCapacity
                 /\ lastPins[r] = SubSeq(lineSequence[r], last - n + 1, last)

\* more lines than the list holds were drawn, so the oldest pins were dropped
C27_Witness ==
    \E r \in Runs :
        /\ Len(lastPins[r]) = LastPinsCapacity
        /\ LinesDrawn(r) > LastPinsCapacity + 1
        /\ lastPins[r][1] = lineSequence[r][Len(lineSequence[r]) - LastPinsCapacity + 1]

\* C28: at every step the chosen pin is not in the recent-pins list at the
\* moment of selection, so it is none of the pins chosen in the 20 steps
\* before.
C28_ChosenPinNotRecent ==
    [][\A r \in Runs :
          Chose(r) =>
              /\ ~Includes(lastPins[r], Chosen(r))
              /\ \A j \in 2..Len(lineSequence[r]) :
                     Len(lineSequence[r]) - j < LastPinsCapacity =>
                         lineSequence[r][j] # Chosen(r)]_vars

\* a chosen pin was chosen again once it had left the list, more than 20
\* steps later
C28_Witness ==
    \E r \in Runs : \E i, j \in 2..Len(lineSequence[r]) :
        /\ j - i > LastPinsCapacity
        /\ lineSequence[r][i] = lineSequence[r][j]

\* C29: for every pin pair whose circular index distance is at least
\* minDistance, and hence for every (current pin, candidate) pair the
\* optimizer can query, the line cache holds a populated (non-null) entry.
C29_QueriedPairsPopulated ==
    enginePc = "optimize" =>
        /\ \A a, b \in 0..(PinCount - 1) :
               calculateMinPinDistance(a, b, PinCount) >= params.minDistance =>
                   /\ lineCache.x[a * PinCount + b] # Null
                   /\ lineCache.y[a * PinCount + b] # Null
        /\ \A r \in Runs :
               InLoop(r) =>
                   LET validPins == getValidTargetPins(currentPin[r], params.minDistance,
                                                       params.numberOfPins, lastPins[r])
                   IN  \A k \in 1..Len(validPins) :
                           LET idx == cacheIndex(validPins[k], currentPin[r], params)
                           IN  lineCache.x[idx] # Null /\ lineCache.y[idx] # Null

\* C30: a line-cache cell for the pin pair (a, b) is populated if and only if
\* the pin-index separation |a - b| is at least minDistance; every other cell
\* holds null coordinates.
C30_PopulatedIffSeparated ==
    enginePc = "optimize" =>
        \A a, b \in 0..(PinCount - 1) :
            LET xs == lineCache.x[a * PinCount + b]
                ys == lineCache.y[a * PinCount + b]
            IN  IF Abs(a - b) >= params.minDistance
                THEN xs # Null /\ ys # Null
                ELSE xs = Null /\ ys = Null

\* with 24 pins and minDistance 2 the neighbours 0 and 1 have no line, while
\* pins 0 and 23, neighbours on the ring but 23 apart by index, have one
C30_Witness ==
    /\ enginePc = "optimize"
    /\ PinCount = 24
    /\ params.minDistance = 2
    /\ lineCache.x[1] = Null
    /\ lineCache.x[23] # Null
    /\ lineCache.x[23 * PinCount] # Null

\* C31: for every populated pin pair the cache entries for (a, b) and (b, a)
\* hold identical coordinate sequences and the same length.
C31_CacheSymmetric ==
    enginePc = "optimize" =>
        \A a, b \in 0..(PinCount - 1) :
            lineCache.x[a * PinCount + b] # Null =>
                /\ lineCache.x[a * PinCount + b] = lineCache.x[b * PinCount + a]
                /\ lineCache.y[a * PinCount + b] = lineCache.y[b * PinCount + a]
                /\ lineCache.length[a * PinCount + b] = lineCache.length[b * PinCount + a]

\* a populated pair whose line is not a palindrome: read from b the samples
\* still run from a's coordinates to b's
C31_Witness ==
    /\ enginePc = "optimize"
    /\ \E a, b \in 0..(PinCount - 1) :
           LET xs == lineCache.x[b * PinCount + a]
           IN  /\ a < b
               /\ xs # Null
               /\ Len(xs) >= 2
               /\ xs[1] = pinCoords[a + 1][1]
               /\ xs[1] # xs[Len(xs)]

\* the linesDrawn values of the progress events run r has emitted, in order
Emitted(r) == [i \in 1..Len(progressLog[r]) |-> progressLog[r][i].linesDrawn]

C33_YieldsOnlyAfterEmission ==
    [][\A r \in Runs :
          active = r =>
              /\ (pc'[r] = "yield") <=> (Len(progressLog'[r]) = Len(progressLog[r]) + 1)
              /\ active' # r => pc'[r] \in {"yield", "done"}
              /\ pc'[r] = "yield" => active' = NoRun]_vars

\* a run is suspended after its second emission: the ten steps since the
\* first one ran without suspension
C33_Witness ==
    \E r \in Runs :
        /\ pc[r] = "yield"
        /\ active = NoRun
        /\ Len(progressLog[r]) = 2
        /\ LinesDrawn(r) = ProgressInterval + 1

\* C34: two optimizer runs that interleave at their yield points, sharing the
\* line cache and the pin coordinates and each with its own error matrix,
\* return the pin sequences and thread lengths that optimizeStringArt returns
\* when it runs alone on the same arguments.
C34_InterleavedRunsAsAlone ==
    (\A r \in Runs : Done(r)) =>
        \A alone \in {optimizeStringArt(createErrorMatrix(imageData), pinCoords,
                                        lineCache, params)} :
            \A r \in Runs :
                /\ lineSequence[r] = alone.lineSequence
                /\ totalThreadLength[r] = alone.totalThreadLength

\* both runs reported progress, so they took turns at every yield, and both
\* returned a full sequence
C34_Witness ==
    /\ \A r \in Runs : Done(r) /\ onProgress[r] /\ Len(progressLog[r]) >= 3
    /\ LinesDrawn(1) = MaxLines
    /\ totalThreadLength[2] > 0

\* the error-matrix indexes of the sampled pixels of the line between two pins
SampledPixels(from, to) ==
    LET line == rasterize(pinCoords[Min(from, to) + 1], pinCoords[Max(from, to) + 1])
    IN  {line.ys[i] * TargetWidth(params) + line.xs[i] : i \in 1..Len(line.xs)}

\* C35: an optimization step changes only the error-matrix cells at the
\* sampled pixels of the chosen line; the line cache, the pin coordinates and
\* every other error-matrix cell, of this run and of the other, stay as they
\* are throughout the run.
C35_StepChangesOnlyLinePixels ==
    [][/\ enginePc = "optimize" => (lineCache' = lineCache /\ pinCoords' = pinCoords)
       /\ \A r \in Runs :
              Chose(r) =>
                  /\ \A i \in DOMAIN errorMatrix[r] :
                         errorMatrix'[r][i] # errorMatrix[r][i] =>
                             i \in SampledPixels(currentPin[r], Chosen(r))
                  /\ \A o \in Runs \ {r} : errorMatrix'[o] = errorMatrix[o]]_vars

\* the largest physical dimension of the frame and the largest pixel dimension
MaxPhysicalDimension == IF params.shape = "rectangle" THEN Max(params.width, params.height)
                                                      ELSE params.hoopDiameter
MaxPixelDimension == Max(TargetWidth(params), TargetHeight(params))

\* the length of the first n lines of a pin sequence, each line the pixel
\* distance of its two pins times MaxPhysicalDimension / MaxPixelDimension
RECURSIVE ThreadLengthOfLines(_, _)
ThreadLengthOfLines(pins, n) ==
    IF n = 0 THEN 0
    ELSE ThreadLengthOfLines(pins, n - 1)
             + (calculatePinDistance(pinCoords[pins[n] + 1], pinCoords[pins[n + 1] + 1],
                                     LengthScale) * MaxPhysicalDimension)
                   \div MaxPixelDimension

\* C36: the running thread length is 0 before the first line and after each
\* step is the sum, over the lines drawn so far, of the pixel distance of
\* the line's two pins times (maximum physical dimension / maximum pixel
\* dimension); every progress event carries the sum of the lines drawn when
\* it was emitted, the result carries the sum of all lines, and the running
\* value never decreases.
C36_ThreadLengthIsRunningSum ==
    /\ [](\A r \in Runs :
              pc[r] # "ready" =>
                  /\ totalThreadLength[r] = ThreadLengthOfLines(lineSequence[r], LinesDrawn(r))
                  /\ \A e \in 1..Len(progressLog[r]) :
                         progressLog[r][e].threadLength =
                             ThreadLengthOfLines(progressLog[r][e].sequence,
                                                 Len(progressLog[r][e].sequence) - 1))
    /\ [][\A r \in Runs : pc[r] # "ready" => totalThreadLength'[r] >= totalThreadLength[r]]_vars

\* a finished rectangle run with a progress event after its second line, the
\* second line longer than nothing
C36_Witness ==
    \E r \in Runs :
        /\ Done(r)
        /\ params.shape = "rectangle"
        /\ LinesDrawn(r) >= 2
        /\ progressLog[r] # << >>
        /\ totalThreadLength[r] > ThreadLengthOfLines(lineSequence[r], 1)
        /\ ThreadLengthOfLines(lineSequence[r], 1) > 0

\* C40: while the optimizer runs, the pin count it generates candidates with
\* and multiplies cache indexes by is the number of pin coordinates, the
\* count the line cache was built with, so the cell read for a candidate is
\* the cell precalculateLineCache filled for the pair (candidate, current).
C40_OptimizerPinCountIsLayoutPinCount ==
    \A r \in Runs :
        pc[r] # "ready" =>
            /\ params.numberOfPins = Len(pinCoords)
            /\ \A testPin \in 0..(params.numberOfPins - 1) :
                   cacheIndex(testPin, currentPin[r], params)
                       = testPin * Len(pinCoords) + currentPin[r]

\* the handlers no user action starts: timers and speech callbacks
AutomaticHandlers ==
    {"autoAdvanceTimeout", "listenTimeout", "confirmTimeout", "utterance.onstart",
     "utterance.onend"}

\* C37: while voice control is enabled and playback is running, a handler
\* that no user action started changes the current step only if it is the
\* timer of the CONFIRMED phase, that is, after a voice confirmation; the
\* auto-advance timers leave the step alone.
C37_AdvancesOnlyOnConfirmation ==
    [][(/\ result.state.voiceControl.enabled
        /\ result.state.isPlaying
        /\ call'.op \in AutomaticHandlers
        /\ result'.state.currentStep # result.state.currentStep)
           => (call'.op = "confirmTimeout" /\ result.state.voiceControl.phase = "CONFIRMED")
      ]_vars

\* C38: while playback is running with voice control enabled, the phase
\* WAITING_TO_LISTEN always leads to LISTENING for the pin of the current
\* step, unless voice control is reset to IDLE or disabled or playback stops.
C38_WaitingLeadsToListening ==
    (/\ result.state.isPlaying
     /\ result.state.voiceControl.enabled
     /\ result.state.voiceControl.phase = "WAITING_TO_LISTEN")
        ~> (\/ /\ result.state.voiceControl.phase = "LISTENING"
               /\ result.state.voiceControl.listeningForPinIndex
                      = << result.state.currentStep >>
            \/ result.state.voiceControl.phase \in {"IDLE", "DISABLED"}
            \/ ~result.state.isPlaying)

====
